---- MODULE Spec2Model ----
(***************************************************************************)
(* Provider routing and fallback layer: AIRouter (core/ai_router.py),      *)
(* RateLimiter and QuotaManager (core/rate_limiter.py) and the adapter     *)
(* status machine BaseAIProvider (providers/base.py).                      *)
(*                                                                         *)
(* Time is the integer clock `now` (time.time() and the event loop clock). *)
(* Every router call is a coroutine; an action is the code that runs       *)
(* between two suspension points of one coroutine.  The wait for a gate    *)
(* slot (asyncio.wait_for around Semaphore.acquire) is taken as a          *)
(* suspension point even when a slot is free.                              *)
(*                                                                         *)
(* Spec runs router calls (generate, generate_with_stream) one after the   *)
(* other, from a limiter on which set_rate_limited may already have been   *)
(* called.  SpecLimiter runs direct clients of the RateLimiter (acquire,   *)
(* release) next to set_rate_limited, update_from_headers and              *)
(* reset_provider arriving at any moment.                                  *)
(***************************************************************************)
EXTENDS Integers, Sequences, FiniteSets, TLC

VARIABLES
    now,               \* time.time()
    providers,         \* AIRouter.providers: the configured provider names
    status,            \* BaseAIProvider.status, per provider
    last_error,        \* BaseAIProvider.last_error, per provider
    rate_limit_reset,  \* BaseAIProvider.rate_limit_reset, per provider
    limits,            \* RateLimiter._limits: RateLimitInfo per provider
    semaphores,        \* RateLimiter._semaphores: free slots, NoSem if absent
    daily_usage,       \* QuotaManager._daily_usage
    last_reset,        \* QuotaManager._last_reset
    call,              \* the router calls (coroutines), per task
    dispatched,        \* per provider, when generate() last invoked its adapter
    ncalls,            \* router calls started so far
    external,          \* operations made from outside the router calls so far
    inflight,          \* per provider, slots held by callers other than Tasks
    provider_priority, \* settings.provider_priority
    returned           \* the calls made from outside so far, with what each returned

vars == <<now, providers, status, last_error, rate_limit_reset, limits,
          semaphores, daily_usage, last_reset, call, dispatched, ncalls,
          external, inflight, provider_priority, returned>>

\* what no router call changes by itself
env == <<now, providers, ncalls, external, inflight, provider_priority, returned>>

----------------------------------------------------------------------------
(* Bounds of the model *)

MaxTime == 6
MaxCalls == 2
MaxExternal == 2
MaxChunks == 1
MaxGateTime == 30
MaxQuotaOps == 4
MaxDays == 1
MaxDrift == 1
MaxStatusTime == 2
MaxStatusOps == 2
MaxWaits == 2

Tasks == {"a", "b"}
SeqTasks == {"a"}

(* Program constants *)

default_max_requests == 10
default_min_interval == 6
MaxSleep == 60
SemaphoreTimeout == 30
SlotMessage == "Could not acquire rate limit slot"
DefaultRequests == 100
SecondsInDay == 86400

NoTime == -1
NoSem == -1
NoTokens == -1
NoProvider == ""

Providers == {"deepseek", "groq", "openrouter"}
ProviderDictOrder == <<"deepseek", "groq", "openrouter">>
\* the default of settings.provider_priority
DefaultPriority == <<"groq", "deepseek", "openrouter">>

(* Inputs *)

ConfiguredSets == {{}, {"groq"}, {"groq", "deepseek", "openrouter"}}
PreferredSet == {NoProvider, "groq", "deepseek"}
MaxRetriesSet == {0, 2}
ResetAfterSet == {0, 3}
GateRetriesSet == {2}
GateFailureKinds == {"429_retry_after"}
ExternalTargets == {"groq"}
RetryAfter == 4
AdapterContent == "text"
AdapterModel == "model"
TokenSet == {NoTokens, 7}
QuotaTargets == {"groq", "deepseek"}

\* settings.provider_priority: the default, a list that repeats a name and
\* omits one, a list that names a provider the router does not know
PrioritySet ==
    { DefaultPriority,
      <<"groq", "groq", "deepseek">>,
      <<"openrouter", "gemini">> }
OrderFailureKinds == {"no_content"}
QuotaTokens == {0, 7}
QuotaSteps == {1, SecondsInDay}

\* response headers: header name :> the number its text denotes
\* a header value that is no number, such as the duration "2m59.56s"
NotANumber == -2

\* header maps with a value that cannot be converted
MalformedHeaders ==
    { ("x-ratelimit-remaining" :> NotANumber),
      ("x-ratelimit-remaining-requests" :> 0
          @@ "x-ratelimit-reset-requests" :> NotANumber) }

HeaderSet ==
    { <<>>,
      ("x-ratelimit-remaining" :> 0 @@ "x-ratelimit-reset" :> 0),
      ("x-ratelimit-remaining" :> 3 @@ "x-ratelimit-limit" :> 5
          @@ "x-ratelimit-reset" :> 4),
      ("x-ratelimit-remaining-requests" :> 0 @@ "x-ratelimit-limit-requests" :> 5
          @@ "x-ratelimit-reset-requests" :> 2) }

----------------------------------------------------------------------------
(* Helpers *)

Max(a, b) == IF a >= b THEN a ELSE b
Min(a, b) == IF a <= b THEN a ELSE b

\* Python truthiness of an Optional[float]: None and 0.0 are false
Truthy(x) == x # NoTime /\ x # 0

RECURSIVE FilterSeq(_, _)
FilterSeq(s, S) ==
    IF s = <<>> THEN <<>>
    ELSE IF Head(s) \in S THEN <<Head(s)>> \o FilterSeq(Tail(s), S)
    ELSE FilterSeq(Tail(s), S)

SeqSet(s) == {s[i] : i \in 1..Len(s)}

----------------------------------------------------------------------------
(* RateLimitInfo and the RateLimiter's synchronous operations *)

\* The fields of the dataclass the limiter reads or writes, and two history
\* fields no operation reads: mark, the time now + reset_after of the latest
\* set_rate_limited() that gave a reset_after, and open_mark, whether the
\* latest set_rate_limited() gave none; update_from_headers() and
\* reset_provider() clear both, the reset in acquire() clears open_mark

RateLimitInfo(t) ==
    [exists |-> TRUE,
     requests_remaining |-> DefaultRequests,
     requests_limit |-> DefaultRequests,
     reset_time |-> NoTime,
     last_request_time |-> t,
     request_count |-> 0,
     mark |-> NoTime,
     open_mark |-> FALSE]

\* a provider name the defaultdict _limits holds no entry for
NoInfo ==
    [exists |-> FALSE,
     requests_remaining |-> DefaultRequests,
     requests_limit |-> DefaultRequests,
     reset_time |-> NoTime,
     last_request_time |-> 0,
     request_count |-> 0,
     mark |-> NoTime,
     open_mark |-> FALSE]

\* is_rate_limited() with the comparison of line 22 made inclusive
info_is_rate_limited_inclusive(info, t) ==
    \/ Truthy(info.reset_time) /\ t <= info.reset_time
    \/ info.requests_remaining <= 0

info_is_rate_limited(info, t) ==
    \/ Truthy(info.reset_time) /\ t < info.reset_time
    \/ info.requests_remaining <= 0

info_time_until_reset(info, t) ==
    IF ~Truthy(info.reset_time) THEN 0
    ELSE Max(0, info.reset_time - t)

\* self._limits[provider_name] on a defaultdict: creates the entry when absent
get_limit_info(lim, p) == IF lim[p].exists THEN lim[p] ELSE RateLimitInfo(now)

is_rate_limited(lim, p) == info_is_rate_limited(get_limit_info(lim, p), now)

time_until_available(lim, p) == info_time_until_reset(get_limit_info(lim, p), now)

\* the limiter map after a call that only reads provider p
Touched(lim, p) == [lim EXCEPT ![p] = get_limit_info(lim, p)]

\* set_rate_limited() without the assignment of line 80
set_rate_limited_no_reset_time(lim, p, reset_after) ==
    [lim EXCEPT ![p] =
        [get_limit_info(lim, p) EXCEPT
            !.requests_remaining = 0,
            !.mark = IF reset_after # 0 THEN now + reset_after ELSE @,
            !.open_mark = (reset_after = 0)]]

\* the limiter map after set_rate_limited(p, reset_after); 0 stands for None too
set_rate_limited(lim, p, reset_after) ==
    [lim EXCEPT ![p] =
        [get_limit_info(lim, p) EXCEPT
            !.requests_remaining = 0,
            !.reset_time = IF reset_after # 0 THEN now + reset_after ELSE @,
            !.mark = IF reset_after # 0 THEN now + reset_after ELSE @,
            !.open_mark = (reset_after = 0)]]

\* the quota headers in the order update_from_headers() reads them
HeaderNames ==
    << "x-ratelimit-remaining", "x-ratelimit-limit", "x-ratelimit-reset",
       "x-ratelimit-remaining-requests", "x-ratelimit-limit-requests",
       "x-ratelimit-reset-requests" >>

\* int() and float() raise ValueError for a header value that is no number
ParseFails(h, i) == HeaderNames[i] \in DOMAIN h /\ h[HeaderNames[i]] = NotANumber

\* the number of header steps update_from_headers() completes: all six, or
\* those before the first value it cannot convert
ParsedHeaders(h) ==
    IF \E i \in 1..Len(HeaderNames) : ParseFails(h, i)
    THEN (CHOOSE i \in 1..Len(HeaderNames) :
              ParseFails(h, i) /\ \A j \in 1..(i - 1) : ~ParseFails(h, j)) - 1
    ELSE Len(HeaderNames)

\* header step i was reached and its header is there
Seen(h, i, n) == i <= n /\ HeaderNames[i] \in DOMAIN h

\* the limiter map after update_from_headers(p, h): the assignments made up
\* to the first conversion that raises, and lines 72-73 only when none does
update_from_headers(lim, p, h) ==
    LET info == get_limit_info(lim, p)
        n == ParsedHeaders(h)
        remaining == IF Seen(h, 4, n) THEN h[HeaderNames[4]]
                     ELSE IF Seen(h, 1, n) THEN h[HeaderNames[1]]
                     ELSE info.requests_remaining
        limit == IF Seen(h, 5, n) THEN h[HeaderNames[5]]
                 ELSE IF Seen(h, 2, n) THEN h[HeaderNames[2]]
                 ELSE info.requests_limit
        reset == IF Seen(h, 6, n) THEN now + h[HeaderNames[6]]
                 ELSE IF Seen(h, 3, n) THEN h[HeaderNames[3]]
                 ELSE info.reset_time
        returns == n = Len(HeaderNames)
    IN [lim EXCEPT ![p] =
           [info EXCEPT !.requests_remaining = remaining,
                        !.requests_limit = limit,
                        !.reset_time = reset,
                        !.last_request_time = IF returns THEN now ELSE @,
                        !.request_count = IF returns THEN @ + 1 ELSE @,
                        !.mark = IF n > 0 THEN NoTime ELSE @,
                        !.open_mark = IF n > 0 THEN FALSE ELSE @]]

\* the limiter map after reset_provider(p), lines 253-255
reset_limit_info(lim, p) ==
    [lim EXCEPT ![p] =
        [get_limit_info(lim, p) EXCEPT
            !.reset_time = NoTime,
            !.requests_remaining = get_limit_info(lim, p).requests_limit,
            !.mark = NoTime,
            !.open_mark = FALSE]]

NoLimits == [p \in Providers |-> NoInfo]

\* QuotaManager._daily_usage with no entry
NoUsage == [q \in Providers |-> [present |-> FALSE, requests |-> 0, tokens |-> 0]]

----------------------------------------------------------------------------
(* BaseAIProvider *)

\* is_available() with the comparison of line 98 made inclusive
is_available_inclusive(p) ==
    /\ p \in providers
    /\ status[p] # "disabled"
    /\ \/ status[p] = "available"
       \/ /\ status[p] = "rate_limited"
          /\ ~(Truthy(rate_limit_reset[p]) /\ now <= rate_limit_reset[p])

\* the value is_available() returns; an adapter has a credential exactly when
\* the router holds it in providers
is_available(p) ==
    /\ p \in providers
    /\ status[p] # "disabled"
    /\ \/ status[p] = "available"
       \/ /\ status[p] = "rate_limited"
          /\ ~(Truthy(rate_limit_reset[p]) /\ now < rate_limit_reset[p])

\* the status is_available() leaves behind
StatusAfterIsAvailable(p) ==
    IF /\ p \in providers
       /\ status[p] = "rate_limited"
       /\ ~(Truthy(rate_limit_reset[p]) /\ now < rate_limit_reset[p])
    THEN "available"
    ELSE status[p]

----------------------------------------------------------------------------
(* AIRouter: candidate order *)

\* the limiter map after get_ready_providers(): is_rate_limited() is asked
\* only for the adapters that are available
ReadyLimits ==
    [p \in Providers |-> IF is_available(p) THEN get_limit_info(limits, p)
                         ELSE limits[p]]

\* get_ready_providers(): names in the order of the providers dict
get_ready_providers ==
    FilterSeq(ProviderDictOrder,
              {p \in Providers : is_available(p) /\ ~is_rate_limited(limits, p)})

get_provider_priority ==
    LET ready == get_ready_providers
        first == FilterSeq(provider_priority, SeqSet(ready))
    IN first \o FilterSeq(ready, SeqSet(ready) \ SeqSet(first))

\* the preferred provider is taken as it is: configured and is_available()
PreferredTaken(preferred_provider) ==
    /\ preferred_provider # NoProvider
    /\ preferred_provider \in providers
    /\ is_available(preferred_provider)

\* generate(), lines 103-114
provider_order(preferred_provider) ==
    IF PreferredTaken(preferred_provider)
    THEN <<preferred_provider>>
         \o FilterSeq(get_provider_priority, Providers \ {preferred_provider})
    ELSE get_provider_priority

\* generate_with_stream(), lines 210-225: <<>> when no provider is chosen
stream_provider(preferred_provider) ==
    IF PreferredTaken(preferred_provider) THEN <<preferred_provider>>
    ELSE IF get_ready_providers = <<>> THEN <<>>
    ELSE <<get_ready_providers[1]>>

\* the adapters' status after that choice: is_available() of the preferred
\* adapter alone when it is taken, of every adapter otherwise
StreamStatus(preferred_provider) ==
    IF PreferredTaken(preferred_provider)
    THEN [status EXCEPT ![preferred_provider] = StatusAfterIsAvailable(preferred_provider)]
    ELSE [p \in Providers |-> StatusAfterIsAvailable(p)]

StreamLimits(preferred_provider) ==
    IF PreferredTaken(preferred_provider) THEN limits ELSE ReadyLimits

----------------------------------------------------------------------------
(* Calls: a router call or a direct client of the limiter, as a coroutine *)

IdleCall ==
    [pc |-> "idle", kind |-> "none", preferred_provider |-> NoProvider,
     max_retries |-> 0, provider_order |-> <<>>, idx |-> 1, attempts |-> 0,
     errors |-> <<>>, wake |-> 0, holds |-> 0, success |-> FALSE,
     provider_used |-> NoProvider, content |-> "", model_used |-> "",
     tokens_used |-> NoTokens, invoked |-> <<>>, acquired |-> <<>>,
     released |-> <<>>, chunks |-> <<>>,
     gate_before |-> NoSem, limited_at_start |-> {}, open_at_start |-> {},
     entered_mark |-> NoTime, results |-> <<>>]

\* invoked, acquired and released list the providers whose adapter the call
\* has invoked, for which it has called acquire() and release(); gate_before
\* is the number of free slots of the gate just before the call took its
\* latest slot; limited_at_start holds the providers is_rate_limited() was
\* true for when the call began, open_at_start those of them marked without
\* a reset time; entered_mark is the mark of the provider
\* when acquire() was entered before it

Current(t) == call[t].provider_order[call[t].idx]

Ended == {"done", "cancelled"}

\* The code between two suspension points takes no time: the clock advances
\* only when every coroutine is suspended (asleep, waiting for a full gate,
\* waiting for its adapter, holding a slot) or not running
Suspended(t) ==
    \/ call[t].pc \in {"idle", "done", "cancelled", "call", "streaming", "holding", "probe"}
    \/ call[t].pc \in {"acq_sleep", "min_sleep"} /\ now < call[t].wake
    \/ call[t].pc = "acq_sem" /\ semaphores[Current(t)] = 0 /\ now < call[t].wake

\* the limiter before the first call: untouched, or set_rate_limited() has
\* been called on it
InitialLimits ==
    {NoLimits} \cup {set_rate_limited(NoLimits, p, n) :
                        p \in ExternalTargets, n \in ResetAfterSet}

InitRest ==
    /\ status = [p \in Providers |-> IF p \in providers THEN "available" ELSE "disabled"]
    /\ last_error = [p \in Providers |-> ""]
    /\ rate_limit_reset = [p \in Providers |-> NoTime]
    /\ semaphores = [p \in Providers |-> NoSem]
    /\ daily_usage = [p \in Providers |-> [present |-> FALSE, requests |-> 0, tokens |-> 0]]
    /\ last_reset = 0
    /\ call = [t \in Tasks |-> IdleCall]
    /\ dispatched = [p \in Providers |-> NoTime]
    /\ ncalls = 0
    /\ external = 0
    /\ inflight = [p \in Providers |-> 0]
    /\ returned = <<>>

Init ==
    /\ now = 0
    /\ provider_priority = DefaultPriority
    /\ providers \in ConfiguredSets
    /\ limits \in InitialLimits
    /\ InitRest

\* the router of a process whose settings give any of the priority lists
InitOrder ==
    /\ now = 0
    /\ provider_priority \in PrioritySet
    /\ providers \in ConfiguredSets
    /\ limits \in InitialLimits
    /\ InitRest

InitLimiter ==
    /\ now = 0
    /\ provider_priority = DefaultPriority
    /\ providers = Providers
    /\ limits = NoLimits
    /\ InitRest

Tick ==
    /\ now < MaxTime
    /\ \A t \in Tasks : Suspended(t)
    /\ now' = now + 1
    /\ UNCHANGED <<providers, provider_priority, returned, status, last_error, rate_limit_reset, limits,
                   semaphores, daily_usage, last_reset, call, dispatched,
                   ncalls, external, inflight>>

LimitedNow == {p \in Providers : info_is_rate_limited(limits[p], now)}

OpenNow == {p \in LimitedNow : limits[p].open_mark}

\* the mark of provider p that is still running, NoTime when there is none
RunningMark(lim, p) ==
    IF lim[p].mark # NoTime /\ now < lim[p].mark THEN lim[p].mark ELSE NoTime

\* more than a day goes by while no call is in progress; followed only from
\* a ledger that has entries
DayPasses ==
    /\ now <= MaxTime
    /\ daily_usage # NoUsage
    /\ \A t \in Tasks : call[t].pc \in {"idle"} \cup Ended
    /\ now' = now + SecondsInDay + 1
    /\ UNCHANGED <<providers, provider_priority, returned, status, last_error, rate_limit_reset, limits,
                   semaphores, daily_usage, last_reset, call, dispatched,
                   ncalls, external, inflight>>

\* a caller may start a call when its previous one has ended
MayStart(t) ==
    /\ call[t].pc \in {"idle"} \cup Ended
    /\ ncalls < MaxCalls

----------------------------------------------------------------------------
(* RateLimiter.acquire, as run by a call *)

\* the sleep of the wait loop without its cap
SleepTimeUncapped(wait_time) == wait_time

\* acquire(), line 102: one sleep of the wait loop lasts min(wait_time, 60)
SleepTime(wait_time) == Min(wait_time, MaxSleep)

\* acquire(), lines 99-108: one evaluation of the rate-limited wait loop, up
\* to its sleep or its exit
AcquireWhile(t, c, lim) ==
    LET p == c.provider_order[c.idx]
        info == get_limit_info(lim, p)
        wait_time == info_time_until_reset(info, now)
    IN IF info_is_rate_limited(info, now) /\ wait_time > 0
       THEN /\ limits' = [lim EXCEPT ![p] = info]
            /\ call' = [call EXCEPT ![t] =
                   [c EXCEPT !.pc = "acq_sleep",
                             !.wake = now + SleepTime(wait_time)]]
       ELSE IF info_is_rate_limited(info, now)
       THEN /\ limits' = [lim EXCEPT ![p] =
                   [info EXCEPT !.requests_remaining = info.requests_limit,
                                !.reset_time = NoTime,
                                !.open_mark = FALSE]]
            /\ call' = [call EXCEPT ![t] =
                   [c EXCEPT !.pc = "acq_sem", !.wake = now + SemaphoreTimeout]]
       ELSE /\ limits' = [lim EXCEPT ![p] = info]
            /\ call' = [call EXCEPT ![t] =
                   [c EXCEPT !.pc = "acq_sem", !.wake = now + SemaphoreTimeout]]

\* acquire(), lines 92-97: the gate of the provider is created on first use
SemaphoreCreated(p) ==
    [semaphores EXCEPT ![p] = IF @ = NoSem THEN default_max_requests ELSE @]

\* acquire() returns.  In generate() the attempt is counted and the adapter
\* is invoked (lines 148-149); in generate_with_stream() the adapter's stream
\* is started (line 233); a direct client holds the slot
Dispatched(c) ==
    LET sent == Append(c.invoked, c.provider_order[c.idx])
    IN CASE c.kind = "generate" ->
              [c EXCEPT !.pc = "call", !.attempts = @ + 1, !.invoked = sent, !.wake = 0]
         [] c.kind = "stream" ->
              [c EXCEPT !.pc = "streaming", !.invoked = sent, !.wake = 0]
         [] OTHER -> [c EXCEPT !.pc = "holding", !.wake = 0]

DispatchTime(c, p) ==
    IF c.kind = "generate" THEN [dispatched EXCEPT ![p] = now]
    ELSE dispatched

\* acquire(), line 103: the sleep of the wait loop is over
WakeRetry(t) ==
    /\ call[t].pc = "acq_sleep"
    /\ now >= call[t].wake
    /\ AcquireWhile(t, call[t], limits)
    /\ UNCHANGED <<env, dispatched, status, last_error, rate_limit_reset,
                   semaphores, daily_usage, last_reset>>

\* a gate that hands out slots it does not have
SlotFreeAlways(p) == TRUE

\* Semaphore.acquire() returns without waiting when a slot is free
SlotFree(p) == semaphores[p] > 0

\* acquire(), lines 110-122: a slot of the gate is taken, then the minimum
\* interval since last_request_time is enforced
AcquireSlot(t) ==
    LET p == Current(t)
        time_since_last == now - limits[p].last_request_time
        c == [call[t] EXCEPT !.holds = @ + 1, !.gate_before = semaphores[p]]
    IN /\ call[t].pc = "acq_sem"
       /\ SlotFree(p)
       /\ semaphores' = [semaphores EXCEPT ![p] = @ - 1]
       /\ IF time_since_last < default_min_interval
          THEN /\ call' = [call EXCEPT ![t] =
                      [c EXCEPT !.pc = "min_sleep",
                                !.wake = now + (default_min_interval - time_since_last)]]
               /\ dispatched' = dispatched
          ELSE /\ call' = [call EXCEPT ![t] = Dispatched(c)]
               /\ dispatched' = DispatchTime(c, p)
       /\ UNCHANGED <<env, status, last_error, rate_limit_reset, limits,
                      daily_usage, last_reset>>

\* acquire(), line 122: the minimum-interval sleep is over, acquire() returns
WakeDispatch(t) ==
    /\ call[t].pc = "min_sleep"
    /\ now >= call[t].wake
    /\ call' = [call EXCEPT ![t] = Dispatched(@)]
    /\ dispatched' = DispatchTime(call[t], Current(t))
    /\ UNCHANGED <<env, status, last_error, rate_limit_reset, limits,
                   semaphores, daily_usage, last_reset>>

\* a plausible slip: the release of line 183 in a finally around acquire() too
AcquireTimeoutReleases(t) ==
    LET p == Current(t)
        c == call[t]
    IN /\ c.pc = "acq_sem"
       /\ now >= c.wake
       /\ status' = [status EXCEPT ![p] = "error"]
       /\ last_error' = [last_error EXCEPT ![p] = SlotMessage]
       /\ semaphores' = [semaphores EXCEPT ![p] = @ + 1]
       /\ call' = [call EXCEPT ![t] =
              [c EXCEPT !.pc = IF c.kind = "generate" THEN "loop" ELSE "done",
                        !.idx = @ + 1, !.wake = 0,
                        !.released = Append(@, p),
                        !.errors = Append(@, [provider |-> p, msg |-> SlotMessage])]]
       /\ UNCHANGED <<env, dispatched, rate_limit_reset, limits, daily_usage, last_reset>>

\* acquire(), lines 111-117: no slot came free within the timeout and acquire()
\* raises.  generate() catches it at lines 185-187 and goes on with the next
\* candidate; generate_with_stream() yields it as a fragment at lines 245-246;
\* a direct client gets the exception
AcquireTimeout(t) ==
    LET p == Current(t)
        c == call[t]
    IN /\ c.pc = "acq_sem"
       /\ now >= c.wake
       /\ IF c.kind = "generate"
          THEN /\ status' = [status EXCEPT ![p] = "error"]
               /\ last_error' = [last_error EXCEPT ![p] = SlotMessage]
               /\ call' = [call EXCEPT ![t] =
                      [c EXCEPT !.pc = "loop", !.idx = @ + 1, !.wake = 0,
                                !.errors = Append(@, [provider |-> p, msg |-> SlotMessage])]]
          ELSE /\ UNCHANGED <<status, last_error>>
               /\ call' = [call EXCEPT ![t] =
                      [c EXCEPT !.pc = "done", !.wake = 0,
                                !.chunks = IF c.kind = "stream"
                                           THEN Append(@, "[Error: " \o SlotMessage \o "]")
                                           ELSE @]]
       /\ UNCHANGED <<env, dispatched, rate_limit_reset, limits, semaphores,
                      daily_usage, last_reset>>

\* RateLimiter.release()
release(p) ==
    IF semaphores[p] # NoSem THEN [semaphores EXCEPT ![p] = @ + 1] ELSE semaphores

\* the call's own record of the release it made for its current provider
Released(c) ==
    [c EXCEPT !.holds = @ - 1, !.released = Append(@, c.provider_order[c.idx])]

----------------------------------------------------------------------------
(* AIRouter.generate *)

\* a plausible slip: the empty-list return loses its diagnostic
NoProvidersResultSilent(c) ==
    [c EXCEPT !.pc = "done", !.success = FALSE, !.attempts = 0]

\* generate(), lines 116-125: the outcome returned for an empty candidate list
NoProvidersResult(c) ==
    [c EXCEPT !.pc = "done", !.success = FALSE, !.attempts = 0,
              !.errors = <<[provider |-> NoProvider, msg |-> "No providers available"]>>]

\* a plausible slip: the ceiling is compared with > instead of >=
RetryCeilingOffByOne(c) == c.attempts > c.max_retries

\* generate(), lines 129-130: the retry ceiling
RetryCeilingReached(c) == c.attempts >= c.max_retries

\* generate(), lines 100-125: the candidate order and the empty-list return
Generate(t, pref, mr) ==
    /\ MayStart(t)
    /\ ncalls' = ncalls + 1
    /\ LET order == provider_order(pref)
           c == [IdleCall EXCEPT !.kind = "generate", !.preferred_provider = pref,
                                 !.max_retries = mr, !.provider_order = order,
                                 !.limited_at_start = LimitedNow,
                                 !.open_at_start = OpenNow]
       IN /\ status' = [p \in Providers |-> StatusAfterIsAvailable(p)]
          /\ limits' = ReadyLimits
          /\ IF order = <<>>
             THEN call' = [call EXCEPT ![t] = NoProvidersResult(c)]
             ELSE call' = [call EXCEPT ![t] = [c EXCEPT !.pc = "loop"]]
    /\ UNCHANGED <<now, providers, provider_priority, returned, external, inflight, last_error, rate_limit_reset,
                   semaphores, daily_usage, last_reset, dispatched>>

\* a plausible slip: the failure outcome names the provider tried last
FailureResultNamesLast(c) ==
    [c EXCEPT !.pc = "done", !.success = FALSE, !.content = "",
              !.provider_used = IF c.invoked = <<>> THEN NoProvider
                                ELSE c.invoked[Len(c.invoked)],
              !.model_used = "", !.tokens_used = NoTokens]

\* generate(), lines 190-198: the outcome after the loop
FailureResult(c) ==
    [c EXCEPT !.pc = "done", !.success = FALSE, !.content = "",
              !.provider_used = NoProvider, !.model_used = "",
              !.tokens_used = NoTokens]

\* generate(), lines 164-172: the outcome built from the adapter's result
SuccessResult(c, p, tok) ==
    [c EXCEPT !.pc = "done", !.success = TRUE, !.content = AdapterContent,
              !.provider_used = p, !.model_used = AdapterModel,
              !.tokens_used = tok]

\* generate(), lines 128-130 and 189-198: the loop ends without a success
ReturnFailure(t) ==
    /\ call[t].pc = "loop"
    /\ \/ call[t].idx > Len(call[t].provider_order)
       \/ RetryCeilingReached(call[t])
    /\ call' = [call EXCEPT ![t] = FailureResult(@)]
    /\ UNCHANGED <<env, dispatched, status, last_error, rate_limit_reset, limits,
                   semaphores, daily_usage, last_reset>>

\* generate(), lines 136-141: a rate-limited candidate with a wait is skipped
SkipRateLimited(t) ==
    /\ call[t].pc = "loop"
    /\ call[t].idx <= Len(call[t].provider_order)
    /\ ~RetryCeilingReached(call[t])
    /\ is_rate_limited(limits, Current(t))
    /\ time_until_available(limits, Current(t)) > 0
    /\ limits' = Touched(limits, Current(t))
    /\ call' = [call EXCEPT ![t] =
           [@ EXCEPT !.errors = Append(@, [provider |-> Current(t),
                                           msg |-> "Rate limited, wait"]),
                     !.idx = @ + 1]]
    /\ UNCHANGED <<env, dispatched, status, last_error, rate_limit_reset,
                   semaphores, daily_usage, last_reset>>

\* generate(), lines 136-145: the candidate goes on to acquire()
EnterAcquire(t) ==
    /\ call[t].pc = "loop"
    /\ call[t].idx <= Len(call[t].provider_order)
    /\ ~RetryCeilingReached(call[t])
    /\ ~(/\ is_rate_limited(limits, Current(t))
         /\ time_until_available(limits, Current(t)) > 0)
    /\ semaphores' = SemaphoreCreated(Current(t))
    /\ AcquireWhile(t, [call[t] EXCEPT !.acquired = Append(@, Current(t))], limits)
    /\ UNCHANGED <<env, dispatched, status, last_error, rate_limit_reset,
                   daily_usage, last_reset>>

----------------------------------------------------------------------------
(* QuotaManager *)

\* _check_reset(), line 154 with >= for >
RolloverDueInclusive == now - last_reset >= SecondsInDay

\* _check_reset(), line 154: more than a day since the last reset
RolloverDue == now - last_reset > SecondsInDay

\* _check_reset(): the ledger and the reset time it leaves
CheckedUsage == IF RolloverDue THEN NoUsage ELSE daily_usage

CheckedReset == IF RolloverDue THEN now ELSE last_reset

\* dict(self._daily_usage[p]): no key before the first record of p
UsageDict(e) ==
    [k \in (IF e.requests = 0 THEN {} ELSE {"requests", "tokens"}) |->
        IF k = "requests" THEN e.requests ELSE e.tokens]

\* record_usage() without its call of _check_reset()
record_usage_without_check(p, tokens) ==
    /\ last_reset' = last_reset
    /\ daily_usage' = [daily_usage EXCEPT ![p] =
           [present |-> TRUE, requests |-> @.requests + 1,
            tokens |-> @.tokens + tokens]]

\* _check_reset() then the two increments of record_usage()
record_usage(p, tokens) ==
    /\ last_reset' = CheckedReset
    /\ daily_usage' = [CheckedUsage EXCEPT ![p] =
           [present |-> TRUE, requests |-> @.requests + 1,
            tokens |-> @.tokens + tokens]]

----------------------------------------------------------------------------
(* Adapter outcomes of generate() *)

\* the failures the adapters report (groq.py lines 91-153); "402_message" is
\* openrouter.py lines 112-121 with a message supplied by the server
FailureKinds == {"429_retry_after", "429", "http_error", "no_content", "402_message"}

error_message(k) ==
    CASE k = "429_retry_after" -> "Rate limit exceeded"
      [] k = "429" -> "Rate limit exceeded"
      [] k = "http_error" -> "HTTP error: 500"
      [] k = "402_message" -> "Rate Limit reached"
      [] OTHER -> "No content in response"

\* a test for the rate-limit text that is sensitive to letter case
LowerOmitted(m) == m

\* error_msg.lower()
Lower(m) ==
    CASE m = "Rate limit exceeded" -> "rate limit exceeded"
      [] m = "Rate Limit reached" -> "rate limit reached"
      [] m = "HTTP error: 500" -> "http error: 500"
      [] m = "No content in response" -> "no content in response"
      [] OTHER -> m

\* "rate limit" in s, for the strings above
ContainsRateLimit(s) == s \in {"rate limit exceeded", "rate limit reached"}

\* the adapter's own marking before it returns the failure
AdapterStatus(p, k) ==
    CASE k \in {"429_retry_after", "429"} -> "rate_limited"
      [] k = "http_error" -> "error"
      [] OTHER -> status[p]

AdapterReset(p, k) ==
    CASE k = "429_retry_after" -> now + RetryAfter
      [] k = "429" -> NoTime
      [] OTHER -> rate_limit_reset[p]

\* generate(), lines 157-172 and 183: the adapter returns a success
AdapterSuccess(t, tok) ==
    LET p == Current(t)
    IN /\ call[t].pc = "call"
       /\ record_usage(p, IF tok = NoTokens THEN 0 ELSE tok)
       /\ semaphores' = release(p)
       /\ call' = [call EXCEPT ![t] = SuccessResult(Released(@), p, tok)]
       /\ UNCHANGED <<env, dispatched, status, last_error, rate_limit_reset, limits>>

\* generate(), lines 173-183: the adapter returns a reported failure
AdapterFailure(t, k) ==
    LET p == Current(t)
        error_msg == error_message(k)
        marks == ContainsRateLimit(Lower(error_msg))
    IN /\ call[t].pc = "call"
       /\ status' = [status EXCEPT ![p] =
              IF marks THEN "rate_limited" ELSE AdapterStatus(p, k)]
       /\ rate_limit_reset' = [rate_limit_reset EXCEPT ![p] =
              IF marks THEN NoTime ELSE AdapterReset(p, k)]
       /\ last_error' = [last_error EXCEPT ![p] =
              IF k = "http_error" THEN error_msg ELSE @]
       /\ limits' = IF marks THEN set_rate_limited(limits, p, 0) ELSE limits
       /\ semaphores' = release(p)
       /\ call' = [call EXCEPT ![t] =
              [Released(@) EXCEPT !.pc = "loop", !.idx = @ + 1,
                                  !.errors = Append(@, [provider |-> p, msg |-> error_msg])]]
       /\ UNCHANGED <<env, dispatched, daily_usage, last_reset>>

\* a plausible slip: the handler of lines 185-187 without set_error()
AdapterRaisesUnmarked(t) ==
    LET p == Current(t)
    IN /\ call[t].pc = "call"
       /\ semaphores' = release(p)
       /\ call' = [call EXCEPT ![t] =
              [Released(@) EXCEPT !.pc = "loop", !.idx = @ + 1,
                                  !.errors = Append(@, [provider |-> p, msg |-> "fault"])]]
       /\ UNCHANGED <<env, dispatched, status, last_error, rate_limit_reset, limits,
                      daily_usage, last_reset>>

\* a plausible slip: release() after the adapter call, not in a finally
AdapterRaisesNoRelease(t) ==
    LET p == Current(t)
    IN /\ call[t].pc = "call"
       /\ semaphores' = semaphores
       /\ status' = [status EXCEPT ![p] = "error"]
       /\ last_error' = [last_error EXCEPT ![p] = "fault"]
       /\ call' = [call EXCEPT ![t] =
              [@ EXCEPT !.pc = "loop", !.idx = @ + 1,
                        !.errors = Append(@, [provider |-> p, msg |-> "fault"])]]
       /\ UNCHANGED <<env, dispatched, rate_limit_reset, limits, daily_usage, last_reset>>

\* generate(), lines 182-187: the adapter raises
AdapterRaises(t) ==
    LET p == Current(t)
    IN /\ call[t].pc = "call"
       /\ semaphores' = release(p)
       /\ status' = [status EXCEPT ![p] = "error"]
       /\ last_error' = [last_error EXCEPT ![p] = "fault"]
       /\ call' = [call EXCEPT ![t] =
              [Released(@) EXCEPT !.pc = "loop", !.idx = @ + 1,
                                  !.errors = Append(@, [provider |-> p, msg |-> "fault"])]]
       /\ UNCHANGED <<env, dispatched, rate_limit_reset, limits, daily_usage, last_reset>>

----------------------------------------------------------------------------
(* AIRouter.generate_with_stream *)

\* generate_with_stream(), lines 210-230: the provider is chosen and acquire()
\* is entered, or the single error fragment is produced
GenerateWithStream(t, pref) ==
    /\ MayStart(t)
    /\ ncalls' = ncalls + 1
    /\ status' = StreamStatus(pref)
    /\ LET chosen == stream_provider(pref)
           c == [IdleCall EXCEPT !.kind = "stream", !.preferred_provider = pref,
                                 !.provider_order = chosen,
                                 !.limited_at_start = LimitedNow,
                                 !.open_at_start = OpenNow]
       IN IF chosen = <<>>
          THEN /\ call' = [call EXCEPT ![t] =
                      [c EXCEPT !.pc = "done",
                                !.chunks = <<"[Error: No providers available]">>]]
               /\ limits' = StreamLimits(pref)
               /\ semaphores' = semaphores
          ELSE /\ semaphores' = SemaphoreCreated(chosen[1])
               /\ AcquireWhile(t, [c EXCEPT !.acquired = <<chosen[1]>>,
                                             !.entered_mark = RunningMark(limits, chosen[1])],
                               StreamLimits(pref))
    /\ UNCHANGED <<now, providers, provider_priority, returned, external, inflight, last_error, rate_limit_reset,
                   daily_usage, last_reset, dispatched>>

\* line 240: the adapter's stream produces a fragment, which is passed on
StreamChunk(t) ==
    /\ call[t].pc = "streaming"
    /\ Len(call[t].chunks) < MaxChunks
    /\ call' = [call EXCEPT ![t] = [@ EXCEPT !.chunks = Append(@, "chunk")]]
    /\ UNCHANGED <<env, dispatched, status, last_error, rate_limit_reset, limits,
                   semaphores, daily_usage, last_reset>>

\* a plausible slip: the router marks its limiter on a rate limit reported
\* in the stream, as generate() does
StreamRateLimitedMarks(t) ==
    /\ call[t].pc = "streaming"
    /\ call[t].chunks = <<>>
    /\ status' = [status EXCEPT ![Current(t)] = "rate_limited"]
    /\ rate_limit_reset' = [rate_limit_reset EXCEPT ![Current(t)] = NoTime]
    /\ limits' = set_rate_limited(limits, Current(t), 0)
    /\ semaphores' = release(Current(t))
    /\ call' = [call EXCEPT ![t] =
           [Released(@) EXCEPT !.pc = "done",
                               !.chunks = Append(@, "[Rate limit exceeded]")]]
    /\ UNCHANGED <<env, dispatched, last_error, daily_usage, last_reset>>

\* groq.py lines 197-200: the adapter answers the stream request with a 429
StreamRateLimited(t) ==
    /\ call[t].pc = "streaming"
    /\ call[t].chunks = <<>>
    /\ status' = [status EXCEPT ![Current(t)] = "rate_limited"]
    /\ rate_limit_reset' = [rate_limit_reset EXCEPT ![Current(t)] = NoTime]
    /\ semaphores' = release(Current(t))
    /\ call' = [call EXCEPT ![t] =
           [Released(@) EXCEPT !.pc = "done",
                               !.chunks = Append(@, "[Rate limit exceeded]")]]
    /\ UNCHANGED <<env, dispatched, last_error, limits, daily_usage, last_reset>>

\* lines 233-243: the adapter's stream ends
StreamEnd(t) ==
    /\ call[t].pc = "streaming"
    /\ semaphores' = release(Current(t))
    /\ call' = [call EXCEPT ![t] = [Released(@) EXCEPT !.pc = "done", !.success = TRUE]]
    /\ UNCHANGED <<env, dispatched, status, last_error, rate_limit_reset, limits,
                   daily_usage, last_reset>>

\* a plausible slip: the release of line 243 outside a finally
StreamFaultNoRelease(t) ==
    /\ call[t].pc = "streaming"
    /\ semaphores' = semaphores
    /\ call' = [call EXCEPT ![t] =
           [@ EXCEPT !.pc = "done", !.chunks = Append(@, "[Error: fault]")]]
    /\ UNCHANGED <<env, dispatched, status, last_error, rate_limit_reset, limits,
                   daily_usage, last_reset>>

\* groq.py lines 217-218 and ai_router.py lines 242-246: the transport faults
\* in mid-stream; the adapter, or the router if the adapter lets the
\* exception through, yields one error fragment and the stream ends
StreamFault(t) ==
    /\ call[t].pc = "streaming"
    /\ semaphores' = release(Current(t))
    /\ call' = [call EXCEPT ![t] =
           [Released(@) EXCEPT !.pc = "done", !.chunks = Append(@, "[Error: fault]")]]
    /\ UNCHANGED <<env, dispatched, status, last_error, rate_limit_reset, limits,
                   daily_usage, last_reset>>

----------------------------------------------------------------------------
(* Cancellation *)

\* the caller abandons the call at a suspension point: CancelledError is
\* raised there; it is no Exception, so only the finally blocks run, and
\* these enclose the adapter call alone (ai_router.py lines 147-183, 232-243)
Cancel(t) ==
    /\ call[t].pc \in {"acq_sleep", "acq_sem", "min_sleep", "call", "streaming"}
    /\ IF call[t].pc \in {"call", "streaming"}
       THEN /\ semaphores' = release(Current(t))
            /\ call' = [call EXCEPT ![t] = [Released(@) EXCEPT !.pc = "cancelled"]]
       ELSE /\ semaphores' = semaphores
            /\ call' = [call EXCEPT ![t] = [@ EXCEPT !.pc = "cancelled"]]
    /\ UNCHANGED <<env, dispatched, status, last_error, rate_limit_reset, limits,
                   daily_usage, last_reset>>

----------------------------------------------------------------------------
(* Direct clients of the RateLimiter, and operations on the shared state *)

\* a client awaits RateLimiter.acquire(p)
Acquire(t, p) ==
    /\ MayStart(t)
    /\ ncalls' = ncalls + 1
    /\ semaphores' = SemaphoreCreated(p)
    /\ AcquireWhile(t, [IdleCall EXCEPT !.kind = "acquire", !.provider_order = <<p>>,
                                        !.acquired = <<p>>,
                                        !.entered_mark = RunningMark(limits, p)],
                    limits)
    /\ UNCHANGED <<now, providers, provider_priority, returned, external, inflight, dispatched, status, last_error,
                   rate_limit_reset, daily_usage, last_reset>>

\* the client calls RateLimiter.release(p) for the slot it holds
Release(t) ==
    /\ call[t].pc = "holding"
    /\ semaphores' = release(Current(t))
    /\ call' = [call EXCEPT ![t] = [Released(@) EXCEPT !.pc = "done", !.success = TRUE]]
    /\ UNCHANGED <<env, dispatched, status, last_error, rate_limit_reset, limits,
                   daily_usage, last_reset>>

\* RateLimiter.release(p) by a caller that holds no slot of p
ReleaseUnmatched(p) ==
    /\ external < MaxExternal
    /\ external' = external + 1
    /\ semaphores' = release(p)
    /\ UNCHANGED <<now, providers, provider_priority, returned, ncalls, inflight, dispatched, status, last_error,
                   rate_limit_reset, limits, daily_usage, last_reset, call>>

\* reset_status() that leaves the recorded reset time in place
reset_status_keeps_time(p) ==
    /\ status' = [status EXCEPT ![p] = IF p \in providers THEN "available" ELSE "disabled"]
    /\ last_error' = [last_error EXCEPT ![p] = ""]
    /\ rate_limit_reset' = rate_limit_reset

\* BaseAIProvider.reset_status()
reset_status(p) ==
    /\ status' = [status EXCEPT ![p] = IF p \in providers THEN "available" ELSE "disabled"]
    /\ last_error' = [last_error EXCEPT ![p] = ""]
    /\ rate_limit_reset' = [rate_limit_reset EXCEPT ![p] = NoTime]

\* AIRouter.reset_provider(): nothing happens for a name the router does not
\* hold
ResetProvider(p) ==
    /\ external < MaxExternal
    /\ external' = external + 1
    /\ returned' = Append(returned, [op |-> "reset_provider", arg |-> p, value |-> FALSE])
    /\ IF p \in providers
       THEN /\ reset_status(p)
            /\ limits' = reset_limit_info(limits, p)
       ELSE UNCHANGED <<status, last_error, rate_limit_reset, limits>>
    /\ UNCHANGED <<now, providers, provider_priority, ncalls, inflight, dispatched,
                   semaphores, daily_usage, last_reset, call>>

\* BaseAIProvider.set_rate_limited(reset_time), called on the adapter itself
AdapterSetRateLimited(p, reset_time) ==
    /\ Len(returned) < MaxStatusOps
    /\ external' = external
    /\ returned' = Append(returned, [op |-> "set_rate_limited", arg |-> p, value |-> reset_time])
    /\ status' = [status EXCEPT ![p] = "rate_limited"]
    /\ rate_limit_reset' = [rate_limit_reset EXCEPT ![p] = reset_time]
    /\ UNCHANGED <<now, providers, provider_priority, ncalls, inflight, dispatched,
                   last_error, limits, semaphores, daily_usage, last_reset, call>>

\* BaseAIProvider.set_error(error_message), called on the adapter itself
AdapterSetError(p, message) ==
    /\ Len(returned) < MaxStatusOps
    /\ external' = external
    /\ returned' = Append(returned, [op |-> "set_error", arg |-> p, value |-> message])
    /\ status' = [status EXCEPT ![p] = "error"]
    /\ last_error' = [last_error EXCEPT ![p] = message]
    /\ UNCHANGED <<now, providers, provider_priority, ncalls, inflight, dispatched,
                   rate_limit_reset, limits, semaphores, daily_usage, last_reset, call>>

\* BaseAIProvider.reset_status(), called on the adapter itself
AdapterResetStatus(p) ==
    /\ Len(returned) < MaxStatusOps
    /\ external' = external
    /\ returned' = Append(returned, [op |-> "reset_status", arg |-> p, value |-> FALSE])
    /\ reset_status(p)
    /\ UNCHANGED <<now, providers, provider_priority, ncalls, inflight, dispatched,
                   limits, semaphores, daily_usage, last_reset, call>>

\* BaseAIProvider.is_available(): the read that may change the status
IsAvailable(p) ==
    /\ Len(returned) < MaxStatusOps
    /\ external' = external
    /\ returned' = Append(returned, [op |-> "is_available", arg |-> p, value |-> is_available(p)])
    /\ status' = [status EXCEPT ![p] = StatusAfterIsAvailable(p)]
    /\ UNCHANGED <<now, providers, provider_priority, ncalls, inflight, dispatched,
                   last_error, rate_limit_reset, limits, semaphores, daily_usage,
                   last_reset, call>>

\* a snapshot whose status field is read before is_available() is called
get_provider_status_status_first ==
    [p \in providers |->
        [configured |-> TRUE,
         available |-> is_available(p),
         status |-> status[p],
         last_error |-> last_error[p]]]

\* the snapshot get_provider_status() returns, lines 61-70: the entry is
\* built in the order of its keys, is_available() before the status is read
get_provider_status ==
    [p \in providers |->
        [configured |-> TRUE,
         available |-> is_available(p),
         status |-> StatusAfterIsAvailable(p),
         last_error |-> last_error[p]]]

\* AIRouter.get_provider_status()
GetProviderStatus ==
    /\ Len(returned) < MaxStatusOps
    /\ external' = external
    /\ returned' = Append(returned, [op |-> "get_provider_status", arg |-> NoProvider,
                                     value |-> get_provider_status])
    /\ status' = [p \in Providers |->
                      IF p \in providers THEN StatusAfterIsAvailable(p) ELSE status[p]]
    /\ UNCHANGED <<now, providers, provider_priority, ncalls, inflight, dispatched,
                   last_error, rate_limit_reset, limits, semaphores, daily_usage,
                   last_reset, call>>

\* time passes between two calls on an adapter, a retry-after at a time
StatusTimePasses ==
    /\ now < MaxStatusTime * RetryAfter
    /\ now' = now + RetryAfter
    /\ UNCHANGED <<providers, provider_priority, returned, status, last_error,
                   rate_limit_reset, limits, semaphores, daily_usage, last_reset,
                   call, dispatched, ncalls, external, inflight>>

\* RateLimiter.set_rate_limited()
SetRateLimited(p, reset_after) ==
    /\ external < MaxExternal
    /\ external' = external + 1
    /\ limits' = set_rate_limited(limits, p, reset_after)
    /\ UNCHANGED <<now, providers, provider_priority, returned, ncalls, inflight, dispatched, status, last_error,
                   rate_limit_reset, semaphores, daily_usage, last_reset, call>>

\* RateLimiter.update_from_headers()
UpdateFromHeaders(p, h) ==
    /\ external < MaxExternal
    /\ external' = external + 1
    /\ limits' = update_from_headers(limits, p, h)
    /\ returned' = Append(returned, [op |-> "update_from_headers", arg |-> p, value |-> h])
    /\ UNCHANGED <<now, providers, provider_priority, ncalls, inflight, dispatched, status, last_error,
                   rate_limit_reset, semaphores, daily_usage, last_reset, call>>

\* QuotaManager.record_usage(p, tokens), called on the manager itself
RecordUsage(p, tokens) ==
    /\ external < MaxQuotaOps
    /\ external' = external + 1
    /\ record_usage(p, tokens)
    /\ returned' = Append(returned, [op |-> "record_usage", arg |-> p, value |-> tokens])
    /\ UNCHANGED <<now, providers, provider_priority, ncalls, inflight, dispatched,
                   status, last_error, rate_limit_reset, limits, semaphores, call>>

\* QuotaManager.get_usage(p), lines 164-167: reading the defaultdict makes
\* the entry of p
GetUsage(p) ==
    /\ external < MaxQuotaOps
    /\ external' = external + 1
    /\ last_reset' = CheckedReset
    /\ daily_usage' = [CheckedUsage EXCEPT ![p].present = TRUE]
    /\ returned' = Append(returned, [op |-> "get_usage", arg |-> p,
                                     value |-> UsageDict(CheckedUsage[p])])
    /\ UNCHANGED <<now, providers, provider_priority, ncalls, inflight, dispatched,
                   status, last_error, rate_limit_reset, limits, semaphores, call>>

\* QuotaManager.get_all_usage(), lines 169-172
GetAllUsage ==
    /\ external < MaxQuotaOps
    /\ external' = external + 1
    /\ last_reset' = CheckedReset
    /\ daily_usage' = CheckedUsage
    /\ returned' = Append(returned,
           [op |-> "get_all_usage", arg |-> NoProvider,
            value |-> [q \in {r \in Providers : CheckedUsage[r].present} |->
                          UsageDict(CheckedUsage[q])]])
    /\ UNCHANGED <<now, providers, provider_priority, ncalls, inflight, dispatched,
                   status, last_error, rate_limit_reset, limits, semaphores, call>>

\* time passes between two calls on the quota manager: whole days and a few
\* seconds more
QuotaTimePasses(d) ==
    /\ now + d <= MaxDays * SecondsInDay + MaxDrift
    /\ (now + d) % SecondsInDay <= MaxDrift
    /\ now' = now + d
    /\ UNCHANGED <<providers, provider_priority, returned, status, last_error,
                   rate_limit_reset, limits, semaphores, daily_usage, last_reset,
                   call, dispatched, ncalls, external, inflight>>

----------------------------------------------------------------------------
(* AIRouter.health_check *)

ProbeOutcomes == {"ok", "failed", "raised"}

\* the configured providers in the order of the providers dict
ConfiguredOrder == FilterSeq(ProviderDictOrder, providers)

\* health_check(), lines 264-266: the probe of the provider at position i is
\* awaited, or the map is returned when the loop is over
ProbeNext(c, i) ==
    IF i > Len(c.provider_order)
    THEN [c EXCEPT !.pc = "done", !.idx = i, !.success = TRUE]
    ELSE [c EXCEPT !.pc = "probe", !.idx = i,
                   !.invoked = Append(@, c.provider_order[i])]

\* health_check(), lines 261-266: the loop starts with the first provider
HealthCheck(t) ==
    /\ MayStart(t)
    /\ ncalls' = ncalls + 1
    /\ call' = [call EXCEPT ![t] =
           ProbeNext([IdleCall EXCEPT !.kind = "health",
                                      !.provider_order = ConfiguredOrder], 1)]
    /\ UNCHANGED <<now, providers, provider_priority, returned, external, inflight,
                   dispatched, status, last_error, rate_limit_reset, limits,
                   semaphores, daily_usage, last_reset>>

\* health_check(), lines 265-268: the awaited check_availability() returns
\* true or false, or raises, and the loop goes on to the next provider
ProbeEnds(t, outcome) ==
    LET c == call[t]
        p == Current(t)
        noted == [c EXCEPT !.results = (p :> (outcome = "ok")) @@ @,
                           !.errors = Append(@, [provider |-> p, msg |-> outcome])]
    IN /\ c.pc = "probe"
       /\ call' = [call EXCEPT ![t] = ProbeNext(noted, c.idx + 1)]
       /\ UNCHANGED <<env, dispatched, status, last_error, rate_limit_reset, limits,
                      semaphores, daily_usage, last_reset>>

----------------------------------------------------------------------------
\* a caller other than Tasks gets past the gate of p in its acquire(p)
OtherTakes(p) ==
    LET gate == SemaphoreCreated(p)
    IN /\ gate[p] > 0
       /\ semaphores' = [gate EXCEPT ![p] = @ - 1]
       /\ inflight' = [inflight EXCEPT ![p] = @ + 1]
       /\ UNCHANGED <<now, providers, provider_priority, returned, ncalls, external, dispatched, status,
                      last_error, rate_limit_reset, limits, daily_usage,
                      last_reset, call>>

\* such a caller reaches its release(p)
OtherReleases(p) ==
    /\ inflight[p] > 0
    /\ semaphores' = release(p)
    /\ inflight' = [inflight EXCEPT ![p] = @ - 1]
    /\ UNCHANGED <<now, providers, provider_priority, returned, ncalls, external, dispatched, status,
                   last_error, rate_limit_reset, limits, daily_usage,
                   last_reset, call>>

\* the times at which a sleeping or waiting call is due
Timers == {call[t].wake : t \in {u \in Tasks : call[u].pc \in {"acq_sleep", "acq_sem", "min_sleep"}}}

SetMin(S) == CHOOSE x \in S : \A y \in S : x <= y

\* the clock of the specification in which the gate fills: with every call
\* suspended, time passes until the first sleep or slot wait is due
TickGate ==
    /\ \A t \in Tasks : Suspended(t)
    /\ Timers # {}
    /\ SetMin(Timers) <= MaxGateTime
    /\ now' = SetMin(Timers)
    /\ UNCHANGED <<providers, provider_priority, returned, status, last_error, rate_limit_reset, limits,
                   semaphores, daily_usage, last_reset, call, dispatched,
                   ncalls, external, inflight>>

\* the clock of the specification of recovery: with every call suspended,
\* time passes until the first sleep is due, or by the longest sleep of the
\* program when no call sleeps
TickRecover ==
    /\ \A t \in Tasks : Suspended(t)
    /\ now < MaxWaits * MaxSleep
    /\ now' = IF Timers # {} THEN SetMin(Timers) ELSE now + MaxSleep
    /\ UNCHANGED <<providers, provider_priority, returned, status, last_error,
                   rate_limit_reset, limits, semaphores, daily_usage, last_reset,
                   call, dispatched, ncalls, external, inflight>>

InitGate ==
    /\ now = 0
    /\ provider_priority = DefaultPriority
    /\ providers = Providers
    /\ limits = NoLimits
    /\ InitRest

----------------------------------------------------------------------------
(* Specifications *)

Next ==
    \/ Tick
    \/ \E t \in SeqTasks, pref \in PreferredSet, mr \in MaxRetriesSet : Generate(t, pref, mr)
    \/ \E t \in SeqTasks, pref \in PreferredSet : GenerateWithStream(t, pref)
    \/ \E t \in SeqTasks : ReturnFailure(t)
    \/ \E t \in SeqTasks : SkipRateLimited(t)
    \/ \E t \in SeqTasks : EnterAcquire(t)
    \/ \E t \in SeqTasks : WakeRetry(t)
    \/ \E t \in SeqTasks : AcquireSlot(t)
    \/ \E t \in SeqTasks : WakeDispatch(t)
    \/ \E t \in SeqTasks, tok \in TokenSet : AdapterSuccess(t, tok)
    \/ \E t \in SeqTasks, k \in FailureKinds : AdapterFailure(t, k)
    \/ \E t \in SeqTasks : AdapterRaises(t)
    \/ \E t \in SeqTasks : StreamChunk(t)
    \/ \E t \in SeqTasks : StreamRateLimited(t)
    \/ \E t \in SeqTasks : StreamEnd(t)
    \/ \E t \in SeqTasks : StreamFault(t)
    \/ \E t \in SeqTasks : Cancel(t)

Spec == Init /\ [][Next]_vars

NextLimiter ==
    \/ Tick
    \/ \E t \in Tasks, p \in ExternalTargets : Acquire(t, p)
    \/ \E t \in Tasks : WakeRetry(t)
    \/ \E t \in Tasks : AcquireSlot(t)
    \/ \E t \in Tasks : WakeDispatch(t)
    \/ \E t \in Tasks : Release(t)
    \/ \E p \in ExternalTargets : ReleaseUnmatched(p)
    \/ \E p \in ExternalTargets : ResetProvider(p)
    \/ \E p \in ExternalTargets, n \in ResetAfterSet : SetRateLimited(p, n)
    \/ \E p \in ExternalTargets, h \in HeaderSet : UpdateFromHeaders(p, h)

SpecLimiter == InitLimiter /\ [][NextLimiter]_vars

\* concurrent router calls on a gate that other callers can fill
NextGate ==
    \/ TickGate
    \/ \E p \in ExternalTargets : OtherTakes(p)
    \/ \E p \in ExternalTargets : OtherReleases(p)
    \/ \E t \in Tasks, mr \in GateRetriesSet : Generate(t, NoProvider, mr)
    \/ \E t \in Tasks : GenerateWithStream(t, NoProvider)
    \/ \E t \in Tasks : ReturnFailure(t)
    \/ \E t \in Tasks : EnterAcquire(t)
    \/ \E t \in Tasks : AcquireSlot(t)
    \/ \E t \in Tasks : AcquireTimeout(t)
    \/ \E t \in Tasks : WakeDispatch(t)
    \/ \E t \in Tasks : AdapterSuccess(t, NoTokens)
    \/ \E t \in Tasks, k \in GateFailureKinds : AdapterFailure(t, k)
    \/ \E t \in Tasks : StreamEnd(t)

SpecGate == InitGate /\ [][NextGate]_vars

\* generate calls one after the other, with a day going by between them
NextUsage ==
    \/ Tick
    \/ DayPasses
    \/ \E t \in SeqTasks, pref \in PreferredSet, mr \in MaxRetriesSet : Generate(t, pref, mr)
    \/ \E t \in SeqTasks : ReturnFailure(t)
    \/ \E t \in SeqTasks : EnterAcquire(t)
    \/ \E t \in SeqTasks : AcquireSlot(t)
    \/ \E t \in SeqTasks : WakeDispatch(t)
    \/ \E t \in SeqTasks, tok \in TokenSet : AdapterSuccess(t, tok)
    \/ \E t \in SeqTasks, k \in GateFailureKinds : AdapterFailure(t, k)
    \/ \E t \in SeqTasks : AdapterRaises(t)

SpecUsage == InitGate /\ [][NextUsage]_vars

\* the quota manager alone: records and reads, with time passing in between
NextQuota ==
    \/ \E d \in QuotaSteps : QuotaTimePasses(d)
    \/ \E p \in QuotaTargets, tok \in QuotaTokens : RecordUsage(p, tok)
    \/ \E p \in QuotaTargets : GetUsage(p)
    \/ GetAllUsage

SpecQuota == InitGate /\ [][NextQuota]_vars

\* generate calls one after the other under each configured priority list
NextOrder ==
    \/ Tick
    \/ \E t \in SeqTasks, pref \in PreferredSet, mr \in MaxRetriesSet : Generate(t, pref, mr)
    \/ \E t \in SeqTasks : ReturnFailure(t)
    \/ \E t \in SeqTasks : SkipRateLimited(t)
    \/ \E t \in SeqTasks : EnterAcquire(t)
    \/ \E t \in SeqTasks : AcquireSlot(t)
    \/ \E t \in SeqTasks : WakeDispatch(t)
    \/ \E t \in SeqTasks : AdapterSuccess(t, NoTokens)
    \/ \E t \in SeqTasks, k \in OrderFailureKinds : AdapterFailure(t, k)

SpecOrder == InitOrder /\ [][NextOrder]_vars

\* reset_time arguments of an adapter's set_rate_limited(): none (0), or the
\* time one retry-after from now, which StatusTimePasses reaches exactly
StatusResetAfterSet == {0, RetryAfter}

\* the adapters' status operations and reset_provider, called in any order
NextStatus ==
    \/ StatusTimePasses
    \/ \E p \in ExternalTargets, n \in StatusResetAfterSet :
           AdapterSetRateLimited(p, IF n = 0 THEN NoTime ELSE now + n)
    \/ \E p \in ExternalTargets : AdapterSetError(p, "fault")
    \/ \E p \in ExternalTargets : AdapterResetStatus(p)
    \/ \E p \in ExternalTargets : IsAvailable(p)
    \/ GetProviderStatus
    \/ \E p \in ExternalTargets : ResetProvider(p)

SpecStatus == Init /\ [][NextStatus]_vars

\* health checks, which several callers may run at once
NextHealth ==
    \/ \E t \in Tasks : HealthCheck(t)
    \/ \E t \in Tasks, outcome \in ProbeOutcomes : ProbeEnds(t, outcome)

SpecHealth == Init /\ [][NextHealth]_vars

\* generate calls that name no preferred provider, with no reset_provider():
\* the event loop runs every coroutine that can run and time goes on
NextRecover ==
    \/ TickRecover
    \/ \E t \in SeqTasks, mr \in MaxRetriesSet : Generate(t, NoProvider, mr)
    \/ \E t \in SeqTasks : ReturnFailure(t)
    \/ \E t \in SeqTasks : EnterAcquire(t)
    \/ \E t \in SeqTasks : AcquireSlot(t)
    \/ \E t \in SeqTasks : WakeDispatch(t)
    \/ \E t \in SeqTasks : AdapterSuccess(t, NoTokens)
    \/ \E t \in SeqTasks, k \in GateFailureKinds : AdapterFailure(t, k)

SpecRecover == InitGate /\ [][NextRecover]_vars /\ WF_vars(NextRecover)

\* calls of update_from_headers() with well-formed and malformed headers,
\* among the other operations on a limiter entry, while time passes
NextHeaders ==
    \/ Tick
    \/ \E p \in ExternalTargets, h \in HeaderSet \cup MalformedHeaders :
           UpdateFromHeaders(p, h)
    \/ \E p \in ExternalTargets, n \in ResetAfterSet : SetRateLimited(p, n)
    \/ \E p \in ExternalTargets : ResetProvider(p)

SpecHeaders == InitLimiter /\ [][NextHeaders]_vars

\* a reset time further away than the longest single sleep
LongReset == MaxSleep + 10

TermResetAfterSet == {0, LongReset}

\* a run of termination starts with no limiter entry or groq marked
\* rate-limited, with or without a reset time, and with the gate of groq
\* untouched or all its slots held by other callers
InitTerm ==
    /\ now = 0
    /\ provider_priority = DefaultPriority
    /\ providers = Providers
    /\ limits \in {NoLimits} \cup {set_rate_limited(NoLimits, p, n) :
                                      p \in ExternalTargets, n \in TermResetAfterSet}
    /\ status = [p \in Providers |-> "available"]
    /\ last_error = [p \in Providers |-> ""]
    /\ rate_limit_reset = [p \in Providers |-> NoTime]
    /\ daily_usage = NoUsage
    /\ last_reset = 0
    /\ call = [t \in Tasks |-> IdleCall]
    /\ dispatched = [p \in Providers |-> NoTime]
    /\ ncalls = 0
    /\ external = 0
    /\ returned = <<>>
    /\ \E held \in {0, default_max_requests} :
           /\ inflight = [p \in Providers |-> IF p \in ExternalTargets THEN held ELSE 0]
           /\ semaphores = [p \in Providers |->
                  IF p \in ExternalTargets /\ held > 0
                  THEN default_max_requests - held ELSE NoSem]

\* time advances: with every call suspended, to the first sleep or slot wait
\* that is due
TickTerm ==
    /\ \A t \in Tasks : Suspended(t)
    /\ Timers # {}
    /\ now' = SetMin(Timers)
    /\ UNCHANGED <<providers, provider_priority, returned, status, last_error,
                   rate_limit_reset, limits, semaphores, daily_usage, last_reset,
                   call, dispatched, ncalls, external, inflight>>

\* the other callers release(p) a few of the slots they hold
OtherReleasesSome(p) ==
    /\ inflight[p] > default_max_requests - MaxExternal
    /\ OtherReleases(p)

\* the steps by which the event loop carries on the call of t: its own code,
\* the answer of the adapter it awaits, and the release of the slot a direct
\* client holds
Progress(t) ==
    \/ ReturnFailure(t)
    \/ EnterAcquire(t)
    \/ WakeRetry(t)
    \/ AcquireSlot(t)
    \/ AcquireTimeout(t)
    \/ WakeDispatch(t)
    \/ AdapterSuccess(t, NoTokens)
    \/ \E k \in GateFailureKinds : AdapterFailure(t, k)
    \/ Release(t)

\* router calls and direct acquire() clients on a gate whose slots other
\* callers may hold, and of which they release a few, from a limiter that may
\* be marked
NextTerm ==
    \/ TickTerm
    \/ \E p \in ExternalTargets : OtherReleasesSome(p)
    \/ \E t \in SeqTasks, mr \in GateRetriesSet : Generate(t, NoProvider, mr)
    \/ \E t \in Tasks \ SeqTasks, p \in ExternalTargets : Acquire(t, p)
    \/ \E t \in Tasks : Progress(t)

\* time advances and the event loop runs a call that can take a step: the
\* starts of calls and the releases by other callers are not forced
SpecTerm ==
    /\ InitTerm
    /\ [][NextTerm]_vars
    /\ WF_vars(TickTerm \/ \E t \in Tasks : Progress(t))

----------------------------------------------------------------------------
(* Properties *)

GenerateCalls == {t \in Tasks : call[t].kind = "generate"}

Last(s) == s[Len(s)]

NoProvidersDiagnostic == [provider |-> NoProvider, msg |-> "No providers available"]

\* C1: a generate call that finds no provider configured, or computes an
\* empty candidate list, has returned at once: success is false, attempts is
\* 0, the diagnostics hold the single 'no providers available' entry, and no
\* acquire and no adapter was called.
C1_NoProviders ==
    \A t \in GenerateCalls :
        (providers = {} \/ call[t].provider_order = <<>>) =>
            /\ call[t].pc = "done"
            /\ ~call[t].success
            /\ call[t].attempts = 0
            /\ call[t].errors = <<NoProvidersDiagnostic>>
            /\ call[t].acquired = <<>>
            /\ call[t].invoked = <<>>
            /\ call[t].provider_used = NoProvider

\* the router has providers, yet none is a candidate
C1_Witness ==
    \E t \in GenerateCalls :
        /\ providers # {}
        /\ call[t].provider_order = <<>>
        /\ call[t].pc = "done"

OnlyFailures(c) ==
    \A i \in 1..Len(c.errors) : c.errors[i].msg # "Rate limited, wait"

\* C2: the adapter invocations of a generate call are as many as its attempts
\* and never more than max_retries; with max_retries 2 and three candidates
\* that were all ready and all reported failure, two adapters were invoked and
\* the third candidate saw neither acquire nor generate.
C2_RetryCeiling ==
    \A t \in GenerateCalls :
        /\ Len(call[t].invoked) = call[t].attempts
        /\ call[t].attempts <= call[t].max_retries
        /\ (/\ call[t].pc = "done"
            /\ ~call[t].success
            /\ call[t].max_retries = 2
            /\ Len(call[t].provider_order) = 3
            /\ OnlyFailures(call[t]))
           => /\ call[t].attempts = 2
              /\ call[t].invoked = SubSeq(call[t].provider_order, 1, 2)
              /\ call[t].acquired = SubSeq(call[t].provider_order, 1, 2)

C2_Witness ==
    \E t \in GenerateCalls :
        /\ call[t].pc = "done"
        /\ ~call[t].success
        /\ call[t].max_retries = 2
        /\ Len(call[t].provider_order) = 3
        /\ OnlyFailures(call[t])
        /\ Len(call[t].errors) = 2

\* C3: once an attempt of generate is over (the adapter returned a success,
\* returned a failure or raised), the call has released every slot it
\* acquired, once each, and the gate of the provider has as many free slots
\* as before the acquire.
C3_ReleaseBalanced ==
    \A t \in GenerateCalls :
        call[t].pc \in {"loop", "done"} =>
            /\ call[t].holds = 0
            /\ call[t].released = call[t].invoked
            /\ call[t].invoked # <<>> =>
                   semaphores[Last(call[t].invoked)] = call[t].gate_before

\* the adapter raised after a successful acquire
C3_Witness ==
    \E t \in GenerateCalls :
        /\ call[t].pc = "loop"
        /\ call[t].errors # <<>>
        /\ Last(call[t].errors).msg = "fault"
        /\ semaphores[Last(call[t].invoked)] = default_max_requests

\* C4: a call abandoned at a suspension point (the wait loop, the wait for a
\* slot, the minimum-interval sleep, the adapter call) holds no slot once it
\* has ended, and the gate of its provider has all its slots free again.
C4_NoLeakOnCancel ==
    \A t \in Tasks :
        call[t].pc = "cancelled" =>
            /\ call[t].holds = 0
            /\ semaphores[Current(t)] = default_max_requests

PriorityOf(S) == FilterSeq(provider_priority, S)

IsPrefix(s, r) == Len(s) <= Len(r) /\ s = SubSeq(r, 1, Len(s))

\* C5: when the preferred provider A was rate-limited in the limiter as
\* generate was called and the two others were ready, A's adapter is never
\* invoked, the others are attempted in the configured priority order, and a
\* success of the first of them gives provider_used = B with attempts = 1.
C5_PreferredLimitedSkipped ==
    \A t \in GenerateCalls :
        LET A == call[t].preferred_provider
            others == SeqSet(call[t].provider_order) \ {A}
        IN (/\ A \in providers
            /\ A \in call[t].limited_at_start
            /\ Cardinality(others) = 2)
           => /\ A \notin SeqSet(call[t].invoked)
              /\ IsPrefix(call[t].invoked, PriorityOf(others))
              /\ (call[t].success /\ call[t].provider_used = PriorityOf(others)[1])
                     => call[t].attempts = 1

\* C6: a candidate that is_rate_limited() when its turn comes in the loop of
\* generate is skipped: no acquire, no adapter call, attempts unchanged, one
\* diagnostic for it appended.
C6_LimitedCandidateSkipped ==
    [][\A t \in Tasks :
          (/\ call[t].kind = "generate"
           /\ call[t].pc = "loop"
           /\ call[t].idx <= Len(call[t].provider_order)
           /\ ~RetryCeilingReached(call[t])
           /\ is_rate_limited(limits, Current(t))
           /\ call'[t] # call[t])
          => /\ call'[t].acquired = call[t].acquired
             /\ call'[t].invoked = call[t].invoked
             /\ call'[t].attempts = call[t].attempts
             /\ call'[t].idx = call[t].idx + 1
             /\ call'[t].errors =
                    Append(call[t].errors,
                           [provider |-> Current(t), msg |-> "Rate limited, wait"])]_vars

\* C7: while the mark of the latest set_rate_limited(P, N), N > 0, is running
\* (time is before t + N and no reset_provider(P) or update_from_headers(P)
\* came since), is_rate_limited(P) is true; and an acquire(P) that began while
\* a mark was running has not got past its wait loop before that mark's time.
C7_LimitedUntilReset ==
    /\ \A p \in Providers :
           RunningMark(limits, p) # NoTime => is_rate_limited(limits, p)
    /\ \A t \in Tasks :
           (/\ call[t].entered_mark # NoTime
            /\ call[t].pc \in {"acq_sem", "min_sleep", "holding", "done"})
           => now >= call[t].entered_mark

C7_Witness ==
    \E t \in Tasks :
        /\ call[t].kind = "acquire"
        /\ call[t].pc = "holding"
        /\ call[t].entered_mark # NoTime

\* C8: once time is past t + N of the latest set_rate_limited(P, N), N > 0,
\* is_rate_limited(P) is false; and when the latest mark gave no reset time,
\* is_rate_limited(P) is false right after acquire(P) got past its wait loop.
C8_ExpiresWithTime ==
    [][/\ \A p \in Providers :
              (/\ limits'[p].mark # NoTime
               /\ ~limits'[p].open_mark
               /\ now' > limits'[p].mark)
              => ~info_is_rate_limited(limits'[p], now')
       /\ \A t \in Tasks :
              (/\ call[t].pc \in {"idle", "loop", "acq_sleep", "done", "cancelled"}
               /\ call'[t].pc = "acq_sem"
               /\ limits[call'[t].provider_order[call'[t].idx]].open_mark)
              => ~info_is_rate_limited(
                      limits'[call'[t].provider_order[call'[t].idx]], now')]_vars

\* C9: for every provider, is_rate_limited(P) is true exactly when (reset_time
\* is set and now < reset_time) or requests_remaining <= 0, and
\* time_until_available(P) is max(0, reset_time - now) when reset_time is set
\* and 0 when it is not, so never negative.
C9_LimitedIff ==
    \A p \in Providers :
        LET info == get_limit_info(limits, p)
        IN /\ is_rate_limited(limits, p)
                  <=> \/ info.reset_time # NoTime /\ now < info.reset_time
                      \/ info.requests_remaining <= 0
           /\ time_until_available(limits, p) =
                  (IF info.reset_time # NoTime
                   THEN Max(0, info.reset_time - now) ELSE 0)
           /\ time_until_available(limits, p) >= 0

C9_Witness ==
    \E p \in Providers :
        /\ limits[p].exists
        /\ limits[p].requests_remaining > 0
        /\ limits[p].reset_time # NoTime
        /\ now < limits[p].reset_time
        /\ is_rate_limited(limits, p)
        /\ time_until_available(limits, p) > 0

\* C10: a request of generate to provider P is dispatched at least the minimum
\* interval after the previous request to P was dispatched.
C10_MinInterval ==
    [][\A t \in Tasks :
          (/\ call[t].kind = "generate"
           /\ call[t].pc \in {"acq_sem", "min_sleep"}
           /\ call'[t].pc = "call"
           /\ dispatched[Current(t)] # NoTime)
          => now' - dispatched[Current(t)] >= default_min_interval]_vars

\* the callers that hold a slot of the gate of provider p
Holders(p) ==
    inflight[p] + Cardinality({t \in Tasks : call[t].holds > 0 /\ Current(t) = p})

TimedOut(t) ==
    \/ /\ call[t].kind = "generate"
       /\ call[t].errors # <<>>
       /\ Last(call[t].errors).msg = SlotMessage
    \/ /\ call[t].kind = "stream"
       /\ call[t].chunks # <<>>
       /\ Last(call[t].chunks) = "[Error: " \o SlotMessage \o "]"

\* C11: under every interleaving of generate and generate_with_stream calls,
\* the callers that hold a slot of a provider's gate are never more than the
\* configured maximum of 10 and the gate never hands out a slot it does not
\* have; a call whose acquire failed with the slot timeout holds no slot.
C11_GateBound ==
    /\ \A p \in Providers :
           /\ Holders(p) <= default_max_requests
           /\ semaphores[p] # NoSem => semaphores[p] >= 0
    /\ \A t \in Tasks :
           (TimedOut(t) /\ call[t].pc \in {"loop", "done"} /\ ~call[t].success)
           => call[t].holds = 0

C11_Witness ==
    \E t, u \in Tasks, p \in Providers :
        /\ Holders(p) = default_max_requests
        /\ call[t].holds > 0
        /\ Current(t) = p
        /\ TimedOut(u)
        /\ Last(call[u].errors).provider = p

\* C12: release(P) by a caller that holds no slot of P (P never acquired, or
\* the slot already returned) changes no gate, and no gate ever has more free
\* slots than the configured maximum.
C12_ReleaseUnmatchedNoOp ==
    [][/\ call' = call => semaphores' = semaphores
       /\ \A p \in Providers : semaphores'[p] <= default_max_requests]_vars

StreamCalls == {t \in Tasks : call[t].kind = "stream"}

ErrorFragments(c) == {i \in 1..Len(c.chunks) : c.chunks[i] # "chunk"}

\* C13: when the provider chosen by generate_with_stream faults in mid-stream,
\* the caller has the fragments produced so far followed by exactly one error
\* fragment, the stream has ended, the slot of the provider is released, and
\* no other provider was acquired or invoked.
C13_StreamFault ==
    \A t \in StreamCalls :
        LET c == call[t]
        IN (c.chunks # <<>> /\ Last(c.chunks) = "[Error: fault]")
           => /\ c.pc = "done"
              /\ ErrorFragments(c) = {Len(c.chunks)}
              /\ c.holds = 0
              /\ c.acquired = c.provider_order
              /\ c.invoked = c.provider_order
              /\ c.released = c.provider_order
              /\ Len(c.provider_order) = 1
              /\ semaphores[c.provider_order[1]] = c.gate_before

C13_Witness ==
    \E t \in StreamCalls : call[t].chunks = <<"chunk", "[Error: fault]">>

\* C14: generate_with_stream streams only from a provider that is ready, so
\* from none the limiter reported rate-limited as the call began, the preferred
\* one included; and the 'no providers available' fragment comes without any
\* acquire.
C14_StreamFromReady ==
    \A t \in StreamCalls :
        /\ call[t].acquired # <<>> =>
               call[t].acquired[1] \notin call[t].limited_at_start
        /\ call[t].chunks = <<"[Error: No providers available]">> =>
               call[t].acquired = <<>>

\* the messages that contain 'rate limit' in some letter case
RateLimitMessages == {"Rate limit exceeded", "Rate Limit reached"}

\* C15: a reported failure of an adapter appends exactly one diagnostic for
\* the provider; when the message contains 'rate limit' in any letter case the
\* adapter is RateLimited and is_rate_limited(provider) is true right after,
\* and otherwise the limiter is unchanged and the adapter's status is the one
\* the adapter itself left.
C15_ReportedFailure ==
    [][\A t \in Tasks :
          (/\ call[t].kind = "generate"
           /\ call[t].pc = "call"
           /\ call'[t].pc = "loop"
           /\ Last(call'[t].errors).msg # "fault")
          => LET p == Current(t)
                 m == Last(call'[t].errors).msg
             IN /\ call'[t].errors = Append(call[t].errors, [provider |-> p, msg |-> m])
                /\ IF m \in RateLimitMessages
                   THEN /\ status'[p] = "rate_limited"
                        /\ info_is_rate_limited(limits'[p], now')
                   ELSE /\ limits' = limits
                        /\ \E k \in FailureKinds :
                               /\ error_message(k) = m
                               /\ status'[p] = AdapterStatus(p, k)
                               /\ rate_limit_reset'[p] = AdapterReset(p, k)]_vars

C15_Witness ==
    \E t \in GenerateCalls :
        /\ call[t].pc = "loop"
        /\ call[t].errors # <<>>
        /\ Last(call[t].errors).msg = "Rate Limit reached"
        /\ status[Last(call[t].errors).provider] = "rate_limited"
        /\ is_rate_limited(limits, Last(call[t].errors).provider)

\* C16: a provider that is marked rate-limited without a reset time, as
\* generate marks it after a reported rate-limit failure, has its adapter
\* invoked by no generate or generate_with_stream call that starts while the
\* mark stands, whatever the preferred provider.
C16_MarkedNotInvoked ==
    \A t \in Tasks :
        \A p \in call[t].open_at_start : p \notin SeqSet(call[t].invoked)

\* C17: when an adapter raises during an attempt of generate, the call goes on
\* (nothing reaches the caller): one diagnostic '{provider}: {fault}' is
\* appended, the adapter becomes Error with last_error the fault text, the
\* attempt stays counted, the slot is released, and the loop moves to the next
\* candidate.
C17_AdapterRaises ==
    [][\A t \in Tasks :
          (/\ call[t].kind = "generate"
           /\ call[t].pc = "call"
           /\ call'[t].pc # "call"
           /\ call'[t].errors # call[t].errors
           /\ Last(call'[t].errors).msg = "fault")
          => LET p == Current(t)
             IN /\ call'[t].pc = "loop"
                /\ call'[t].errors =
                       Append(call[t].errors, [provider |-> p, msg |-> "fault"])
                /\ status'[p] = "error"
                /\ last_error'[p] = "fault"
                /\ call'[t].attempts = call[t].attempts
                /\ call'[t].attempts = Len(call'[t].invoked)
                /\ call'[t].released = Append(call[t].released, p)
                /\ call'[t].holds = 0
                /\ semaphores'[p] = semaphores[p] + 1
                /\ call'[t].idx = call[t].idx + 1]_vars

C17_Witness ==
    \E t \in GenerateCalls :
        /\ call[t].pc = "loop"
        /\ call[t].errors # <<>>
        /\ Last(call[t].errors).msg = "fault"
        /\ status[Last(call[t].errors).provider] = "error"
        /\ call[t].idx <= Len(call[t].provider_order)
        /\ ~RetryCeilingReached(call[t])

\* C18: when acquire(P) fails with the slot timeout inside generate, the call
\* goes on (nothing reaches the caller): a diagnostic naming P and the 'could
\* not acquire slot' condition is appended, attempts is unchanged, P's adapter
\* is not invoked, release(P) is not called, and the loop moves to the next
\* candidate.
C18_SlotTimeout ==
    [][\A t \in Tasks :
          (/\ call[t].kind = "generate"
           /\ call[t].pc = "acq_sem"
           /\ call'[t].pc \notin {"acq_sem", "min_sleep", "call"})
          => LET p == Current(t)
             IN /\ call'[t].pc = "loop"
                /\ call'[t].errors =
                       Append(call[t].errors, [provider |-> p, msg |-> SlotMessage])
                /\ call'[t].attempts = call[t].attempts
                /\ call'[t].invoked = call[t].invoked
                /\ call'[t].released = call[t].released
                /\ call'[t].holds = 0
                /\ semaphores' = semaphores
                /\ call'[t].idx = call[t].idx + 1]_vars

C18_Witness ==
    \E t \in GenerateCalls :
        /\ call[t].errors # <<>>
        /\ call[t].errors[1].msg = SlotMessage
        /\ call[t].invoked # <<>>
        /\ call[t].errors[1].provider \notin SeqSet(call[t].invoked)

\* C19: every outcome of generate is well formed: a success has attempts >= 1,
\* names the configured provider whose adapter returned it and carries that
\* result's content, model and tokens; a failure has empty content, provider
\* and model and no tokens; attempts never exceeds the number of candidates.
C19_WellFormed ==
    \A t \in GenerateCalls :
        LET c == call[t]
        IN /\ c.attempts <= Len(c.provider_order)
           /\ c.pc = "done" =>
                IF c.success
                THEN /\ c.attempts >= 1
                     /\ c.provider_used = Last(c.invoked)
                     /\ c.provider_used \in providers
                     /\ c.content = AdapterContent
                     /\ c.model_used = AdapterModel
                     /\ c.tokens_used \in TokenSet
                ELSE /\ c.content = ""
                     /\ c.provider_used = NoProvider
                     /\ c.model_used = ""
                     /\ c.tokens_used = NoTokens

C19_Witness ==
    \E t \in GenerateCalls :
        /\ call[t].pc = "done"
        /\ call[t].success
        /\ call[t].attempts = 2
        /\ call[t].errors # <<>>
        /\ call[t].tokens_used # NoTokens

\* a step in which a generate call returns a success
SuccessStep(t) ==
    /\ call[t].kind = "generate"
    /\ call[t].pc = "call"
    /\ call'[t].pc = "done"
    /\ call'[t].success

Reported(c) == IF c.tokens_used = NoTokens THEN 0 ELSE c.tokens_used

\* the ledger after adding one request of provider p to ledger base
UsageAdded(base, p, tokens) ==
    /\ daily_usage'[p].requests = base[p].requests + 1
    /\ daily_usage'[p].tokens = base[p].tokens + tokens
    /\ \A q \in Providers \ {p} : daily_usage'[q] = base[q]

\* C20 as amended: a generate call that succeeds with provider P adds exactly
\* one request and the reported token count (0 when none) for P only, to the
\* ledger as it stands after a due daily rollover, and contacts no further
\* candidate; no other step of a generate call changes the ledger.
C20_UsageAfterRollover ==
    [][/\ \A t \in Tasks :
              SuccessStep(t) =>
                 /\ UsageAdded(IF now - last_reset > SecondsInDay THEN NoUsage
                               ELSE daily_usage,
                               call'[t].provider_used, Reported(call'[t]))
                 /\ call'[t].invoked = call[t].invoked
                 /\ call'[t].provider_used = Last(call[t].invoked)
       /\ (\A t \in Tasks : ~SuccessStep(t)) =>
              daily_usage' = daily_usage /\ last_reset' = last_reset]_vars

C20_Witness ==
    \E t \in GenerateCalls, p \in Providers :
        /\ call[t].pc = "done"
        /\ call[t].success
        /\ call[t].provider_used = p
        /\ ncalls = 2
        /\ last_reset > SecondsInDay
        /\ daily_usage[p].requests = 1

\* C20: a generate call that succeeds with provider P adds exactly one
\* request and the reported token count (0 when none) for P only to the ledger
\* and contacts no further candidate; no other step of a generate call changes
\* the ledger.
C20_UsageExact ==
    [][/\ \A t \in Tasks :
              SuccessStep(t) =>
                 /\ UsageAdded(daily_usage, call'[t].provider_used, Reported(call'[t]))
                 /\ call'[t].invoked = call[t].invoked
                 /\ call'[t].provider_used = Last(call[t].invoked)
       /\ (\A t \in Tasks : ~SuccessStep(t)) =>
              daily_usage' = daily_usage /\ last_reset' = last_reset]_vars

\* a call of operation op is made from outside in this step
OutsideStep(op) ==
    /\ Len(returned') = Len(returned) + 1
    /\ Last(returned').op = op

Counters(e) == <<e.requests, e.tokens>>

\* C21: a record_usage(X, n) made more than 24 hours after the last reset
\* leaves X with that record alone (requests 1, tokens n) and every other
\* provider's counters cleared; one made 24 hours or less after it adds to X's
\* counters and leaves the others as they were; get_usage(X) reports X's
\* counters after the same rollover test, and changes none when no rollover
\* is due.
C21_Rollover ==
    [][/\ OutsideStep("record_usage") =>
              LET X == Last(returned').arg
                  n == Last(returned').value
              IN IF now - last_reset > SecondsInDay
                 THEN /\ Counters(daily_usage'[X]) = <<1, n>>
                      /\ \A q \in Providers \ {X} : Counters(daily_usage'[q]) = <<0, 0>>
                 ELSE /\ Counters(daily_usage'[X]) =
                             <<daily_usage[X].requests + 1, daily_usage[X].tokens + n>>
                      /\ \A q \in Providers \ {X} : daily_usage'[q] = daily_usage[q]
       /\ OutsideStep("get_usage") =>
              LET X == Last(returned').arg
              IN /\ Last(returned').value = UsageDict(daily_usage'[X])
                 /\ IF now - last_reset > SecondsInDay
                    THEN \A q \in Providers : Counters(daily_usage'[q]) = <<0, 0>>
                    ELSE \A q \in Providers : Counters(daily_usage'[q]) = Counters(daily_usage[q])]_vars

\* usage is recorded twice for groq, with a rollover at the second record,
\* and get_usage reports the second record alone
C21_Witness ==
    /\ Len(returned) = 3
    /\ returned[1] = [op |-> "record_usage", arg |-> "groq", value |-> 7]
    /\ returned[2] = [op |-> "record_usage", arg |-> "groq", value |-> 0]
    /\ returned[3].op = "get_usage"
    /\ returned[3].arg = "groq"
    /\ returned[3].value = [k \in {"requests", "tokens"} |-> IF k = "requests" THEN 1 ELSE 0]
    /\ last_reset > SecondsInDay

NoRepeat(s) == \A i, j \in 1..Len(s) : s[i] = s[j] => i = j

\* s without its elements outside S
RECURSIVE Without(_, _)
Without(s, x) ==
    IF s = <<>> THEN <<>>
    ELSE IF Head(s) = x THEN Without(Tail(s), x)
    ELSE <<Head(s)>> \o Without(Tail(s), x)

\* the first occurrences of the elements of s, in order
RECURSIVE FirstOccurrences(_)
FirstOccurrences(s) ==
    IF s = <<>> THEN <<>>
    ELSE <<Head(s)>> \o FirstOccurrences(Without(Tail(s), Head(s)))

ReadyNow == {p \in Providers : is_available(p) /\ ~is_rate_limited(limits, p)}

\* C22: the candidate order a generate call builds holds each provider at
\* most once under every priority list; an available preferred provider is
\* first, and the other candidates are exactly the ready providers, those the
\* priority list names in that list's order and then the rest; and no adapter
\* is invoked twice within one generate call.
C22_CandidateOrder ==
    [][\A t \in Tasks :
          /\ (call'[t].kind = "generate" /\ ncalls' = ncalls + 1) =>
                 LET pref == call'[t].preferred_provider
                     order == call'[t].provider_order
                     taken == pref \in providers /\ is_available(pref)
                     others == IF taken THEN Tail(order) ELSE order
                     named == FirstOccurrences(FilterSeq(provider_priority, ReadyNow))
                 IN /\ NoRepeat(order)
                    /\ taken => order # <<>> /\ order[1] = pref
                    /\ SeqSet(others) = (IF taken THEN ReadyNow \ {pref} ELSE ReadyNow)
                    /\ IsPrefix(IF taken THEN Without(named, pref) ELSE named, others)
          /\ call'[t].kind = "generate" => NoRepeat(call'[t].invoked)]_vars

\* C23: after any sequence of set_rate_limited, set_error, reset_status and
\* is_available calls, an adapter's status is Disabled exactly when it has no
\* credential.
C23_DisabledIffNoCredential ==
    \A p \in Providers : status[p] = "disabled" <=> p \notin providers

HealthCalls == {t \in Tasks : call[t].kind = "health"}

\* C24: while health_check awaits a probe, the probes of all configured
\* providers have been started; the map it returns has exactly the configured
\* providers as keys, with false for every provider whose probe failed or
\* raised and true for the others.
C24_HealthCheck ==
    \A t \in HealthCalls :
        LET c == call[t]
        IN /\ c.pc = "probe" => SeqSet(c.invoked) = providers
           /\ c.pc = "done" =>
                 /\ DOMAIN c.results = providers
                 /\ \A i \in 1..Len(c.errors) :
                        c.results[c.errors[i].provider] = (c.errors[i].msg = "ok")

\* provider p carries the mark generate() makes after a reported rate-limit
\* failure: set_rate_limited(p) without a reset time
RouterMarked(p) == limits[p].exists /\ limits[p].open_mark

\* C25: a provider that generate() marked rate-limited after a reported
\* rate-limit failure is eventually ready again, by the passage of time alone.
C25_Recovery ==
    \A p \in Providers : RouterMarked(p) ~> (p \in SeqSet(get_ready_providers))

\* C26: when an adapter answers an attempt of generate with a 429 that carries
\* a retry-after of N, the reset time now + N it records is still recorded
\* once generate has handled the failure, and the adapter's is_available() is
\* false from then on until that time.
C26_RetryAfterSurvives ==
    [][\A t \in Tasks, p \in Providers :
          (/\ call[t].kind = "generate"
           /\ call[t].pc = "call"
           /\ call'[t].pc = "loop"
           /\ p = Current(t)
           /\ Last(call'[t].errors).msg = error_message("429_retry_after"))
          => /\ rate_limit_reset'[p] = now + RetryAfter
             /\ ~is_available(p)']_vars

\* C27: under every interleaving, at the moment acquire(P) returns to its
\* caller is_rate_limited(P) is false: a mark set on P while the caller was
\* suspended in acquire() is seen before the request is admitted.
C27_AdmittedNotLimited ==
    [][\A t \in Tasks, p \in Providers :
          (/\ call[t].kind = "acquire"
           /\ call[t].pc \in {"acq_sem", "min_sleep"}
           /\ call'[t].pc = "holding"
           /\ p = Current(t))
          => ~info_is_rate_limited(limits'[p], now')]_vars

\* C28: in every state reached by set_rate_limited, set_error, reset_status
\* and is_available calls, an adapter whose rate_limit_reset is set and lies
\* in the future has status RateLimited.
C28_FutureResetMeansLimited ==
    \A p \in Providers :
        (rate_limit_reset[p] # NoTime /\ now < rate_limit_reset[p])
            => status[p] = "rate_limited"

\* C29: a call of is_available() on an adapter returns false when the adapter
\* has no credential or its status is Disabled or Error; with a credential and
\* status RateLimited it returns false and keeps the status while the current
\* time is earlier than the recorded reset time, and returns true with the
\* status changed to Available when the recorded reset time is reached or
\* passed; with a credential and status Available it returns true; it never
\* changes last_error or rate_limit_reset.
C29_IsAvailable ==
    [][\A p \in Providers :
          (OutsideStep("is_available") /\ Last(returned').arg = p)
          => LET value == Last(returned').value
             IN /\ (p \notin providers \/ status[p] \in {"disabled", "error"})
                       => value = FALSE
                /\ (/\ p \in providers
                    /\ status[p] = "rate_limited"
                    /\ rate_limit_reset[p] # NoTime
                    /\ now < rate_limit_reset[p])
                       => (value = FALSE /\ status'[p] = "rate_limited")
                /\ (/\ p \in providers
                    /\ status[p] = "rate_limited"
                    /\ rate_limit_reset[p] # NoTime
                    /\ now >= rate_limit_reset[p])
                       => (value = TRUE /\ status'[p] = "available")
                /\ (p \in providers /\ status[p] = "available")
                       => value = TRUE
                /\ last_error' = last_error
                /\ rate_limit_reset' = rate_limit_reset]_vars

\* set_rate_limited(groq, 4) at time 0 and is_available() at time 4, the
\* recorded reset time: the call returned true and the status is Available
C29_Witness ==
    /\ "groq" \in providers
    /\ now = RetryAfter
    /\ Len(returned) = 2
    /\ returned[1].op = "set_rate_limited"
    /\ returned[1].value = RetryAfter
    /\ returned[2].op = "is_available"
    /\ returned[2].value = TRUE
    /\ status["groq"] = "available"
    /\ rate_limit_reset["groq"] = RetryAfter

\* C30: a call of reset_provider(P) for a configured P leaves the adapter
\* Available with last_error and rate_limit_reset cleared, is_rate_limited(P)
\* false, and P among the ready providers, whatever the state before; for a
\* name that is not configured it changes no adapter and no limiter entry; and
\* a reset_provider(P) that directly follows a reset_provider(P) changes
\* neither.
C30_ResetProvider ==
    [][\A p \in Providers :
          (OutsideStep("reset_provider") /\ Last(returned').arg = p)
          => /\ p \in providers
                    => /\ status'[p] = "available"
                       /\ last_error'[p] = ""
                       /\ rate_limit_reset'[p] = NoTime
                       /\ ~info_is_rate_limited(limits'[p], now')
                       /\ p \in ReadyNow'
             /\ p \notin providers
                    => UNCHANGED <<status, last_error, rate_limit_reset, limits>>
             /\ (/\ returned # <<>>
                 /\ Last(returned).op = "reset_provider"
                 /\ Last(returned).arg = p)
                    => UNCHANGED <<status, last_error, rate_limit_reset, limits>>]_vars

\* set_rate_limited(groq, 4), set_error(groq) and then reset_provider(groq)
\* twice, on a configured groq: it is Available, cleared and ready
C30_Witness ==
    /\ "groq" \in providers
    /\ Len(returned) = 4
    /\ returned[1].op = "set_rate_limited"
    /\ returned[1].value = RetryAfter
    /\ returned[2].op = "set_error"
    /\ returned[3].op = "reset_provider"
    /\ returned[4].op = "reset_provider"
    /\ now < RetryAfter
    /\ status["groq"] = "available"
    /\ last_error["groq"] = ""
    /\ rate_limit_reset["groq"] = NoTime
    /\ "groq" \in ReadyNow

\* C31: a call of get_usage(P) or get_all_usage() made when no daily rollover
\* is due leaves the usage ledger as it was, the set of provider names it
\* holds included.
C31_ReadsLeaveLedger ==
    [][((OutsideStep("get_usage") \/ OutsideStep("get_all_usage"))
            /\ ~(now - last_reset > SecondsInDay))
          => daily_usage' = daily_usage]_vars

\* a call that has started and has neither returned nor raised
Running(t) == call[t].pc \notin {"idle", "holding"} \cup Ended

\* C32: when time advances, every adapter call answers and every held slot
\* is released, every generate call eventually returns and every acquire()
\* eventually returns or raises; one sleep of acquire's wait loop never lasts
\* more than 60 time-units and the wait for a slot never more than 30.
C32_Termination ==
    /\ [](\A t \in Tasks :
             /\ call[t].pc = "acq_sleep" => call[t].wake <= now + MaxSleep
             /\ call[t].pc = "acq_sem" =>
                    (call[t].wake <= now + SemaphoreTimeout /\ now <= call[t].wake))
    /\ \A t \in Tasks : Running(t) ~> ~Running(t)

\* acquire(groq) returned after the mark of groq with a reset time 70 away
\* ran out, which takes a sleep of 60 and one of 10, and a generate call
\* returned after its wait for a slot of the full gate of groq timed out
C32_Witness ==
    /\ call["b"].kind = "acquire"
    /\ call["b"].pc = "holding"
    /\ now >= LongReset
    /\ call["a"].kind = "generate"
    /\ call["a"].pc = "done"
    /\ \E i \in 1..Len(call["a"].errors) : call["a"].errors[i].msg = SlotMessage

\* C33: a call of update_from_headers(P, headers) leaves requests_remaining,
\* requests_limit and reset_time as they were when none of their headers is
\* there, sets last_request_time to the current time and adds exactly 1 to
\* request_count; and no step decreases a request_count.
C33_UpdateFromHeaders ==
    [][/\ \A p \in Providers :
              (OutsideStep("update_from_headers") /\ Last(returned').arg = p)
              => LET h == Last(returned').value
                     before == get_limit_info(limits, p)
                     after == limits'[p]
                     Absent(i) == HeaderNames[i] \notin DOMAIN h
                 IN /\ (Absent(1) /\ Absent(4))
                          => after.requests_remaining = before.requests_remaining
                    /\ (Absent(2) /\ Absent(5))
                          => after.requests_limit = before.requests_limit
                    /\ (Absent(3) /\ Absent(6))
                          => after.reset_time = before.reset_time
                    /\ after.last_request_time = now
                    /\ after.request_count = before.request_count + 1
       /\ \A p \in Providers : limits'[p].request_count >= limits[p].request_count]_vars

\* C34: in the outcome of a generate call with a non-empty candidate list the
\* diagnostics are, in candidate order, one entry for each candidate that was
\* skipped, whose acquire failed, or whose attempt failed or raised; a failure
\* outcome has at least as many entries as attempts, and a success outcome at
\* least attempts - 1 and no entry for the provider that succeeded.
C34_Diagnostics ==
    \A t \in Tasks :
        LET c == call[t]
        IN (c.kind = "generate" /\ c.pc = "done" /\ c.provider_order # <<>>)
           => /\ Len(c.errors) <= Len(c.provider_order)
              /\ \A i \in 1..Len(c.errors) : c.errors[i].provider = c.provider_order[i]
              /\ ~c.success => Len(c.errors) >= c.attempts
              /\ c.success =>
                    /\ Len(c.errors) >= c.attempts - 1
                    /\ Len(c.errors) < Len(c.provider_order)
                    /\ c.provider_used = c.provider_order[Len(c.errors) + 1]
                    /\ \A i \in 1..Len(c.errors) : c.errors[i].provider # c.provider_used

\* C35: a generate_with_stream call that does not take a preferred provider
\* and finds a ready provider chooses the provider that generate, called in
\* the same state with the same arguments, would have first in its candidate
\* list: the ready provider that comes first in the configured priority.
C35_StreamChoosesFirstCandidate ==
    [][\A t \in Tasks :
          (/\ ncalls' = ncalls + 1
           /\ call'[t] # call[t]
           /\ call'[t].kind = "stream"
           /\ ~PreferredTaken(call'[t].preferred_provider)
           /\ call'[t].provider_order # <<>>)
          => /\ provider_order(call'[t].preferred_provider) # <<>>
             /\ call'[t].provider_order[1]
                    = provider_order(call'[t].preferred_provider)[1]]_vars

\* C36: when generate catches an exception for its candidate P, a fault of
\* the adapter or the slot timeout of acquire(P), P's adapter status becomes
\* Error; and from then until P is reset (last_error is still recorded), no
\* generate call that starts has P among its candidates and no
\* generate_with_stream call that starts chooses P, whatever the preferred
\* provider.
C36_ErrorExcluded ==
    /\ [][\A t \in Tasks :
             (/\ call[t].kind = "generate"
              /\ call[t].pc \in {"acq_sem", "call"}
              /\ call'[t].pc = "loop"
              /\ Last(call'[t].errors).msg \in {SlotMessage, "fault"})
             => status'[Current(t)] = "error"]_vars
    /\ [](\A p \in providers, pref \in PreferredSet :
             last_error[p] # ""
                 => /\ p \notin SeqSet(provider_order(pref))
                    /\ p \notin SeqSet(stream_provider(pref)))

\* C37: no step of a generate_with_stream call changes the usage ledger or
\* its reset time, and none marks the limiter: after the step no provider has
\* fewer remaining requests than before and no reset time has been set.
C37_StreamLeavesLedgerAndLimiter ==
    [][\A t \in Tasks :
          (call'[t] # call[t] /\ call'[t].kind = "stream")
          => /\ daily_usage' = daily_usage
             /\ last_reset' = last_reset
             /\ \A p \in Providers :
                   /\ limits'[p].requests_remaining
                          >= get_limit_info(limits, p).requests_remaining
                   /\ limits'[p].reset_time \in {limits[p].reset_time, NoTime}
                   /\ info_is_rate_limited(limits'[p], now')
                          => info_is_rate_limited(limits[p], now)]_vars

\* after a generate call that recorded usage, a stream whose adapter answered
\* with a rate limit has ended: the adapter is RateLimited, the limiter has
\* no mark for the provider and the ledger still holds the record
C37_Witness ==
    \E t \in Tasks :
        /\ call[t].kind = "stream"
        /\ call[t].pc = "done"
        /\ call[t].chunks = <<"[Rate limit exceeded]">>
        /\ status[Current(t)] = "rate_limited"
        /\ ~is_rate_limited(limits, Current(t))
        /\ \E p \in Providers : daily_usage[p].requests = 1

\* C38: the snapshot a call of get_provider_status() returns has an entry
\* for each configured provider, and in each entry available is true exactly
\* when the status field is "available".
C38_SnapshotConsistent ==
    [][OutsideStep("get_provider_status")
          => LET snapshot == Last(returned').value
             IN /\ DOMAIN snapshot = providers
                /\ \A p \in providers :
                      /\ snapshot[p].available <=> (snapshot[p].status = "available")
                      /\ snapshot[p].status = status'[p]]_vars

\* set_rate_limited(groq) without a reset time, then get_provider_status():
\* the entry of groq reports available with status "available"
C38_Witness ==
    /\ "groq" \in providers
    /\ Len(returned) = 2
    /\ returned[1].op = "set_rate_limited"
    /\ returned[1].value = NoTime
    /\ returned[2].op = "get_provider_status"
    /\ returned[2].value["groq"].available
    /\ returned[2].value["groq"].status = "available"

====
